---- MODULE Spec2Model ----
(***************************************************************************)
(* A model of the nanoninja/assert test-assertion library.                 *)
(*                                                                         *)
(* Go values are modelled as records of one uniform shape, so that a value *)
(* of any dynamic type can be handed to a generic primitive (T = any).     *)
(* reflect.DeepEqual, fmt's %v and %#v verbs and reflect.TypeOf are        *)
(* modelled by what they do on these values.  The host sink is the         *)
(* TestRecorder of helpers.go, extended with the log of everything that    *)
(* was sent to it.                                                         *)
(***************************************************************************)
EXTENDS Integers, Sequences, FiniteSets, TLC

VARIABLES
    tc,     \* the arguments of the assertion calls under test
    res,    \* per primitive: the sink after the call on a fresh recorder
    panicnil,   \* the build: TRUE if recover() returns nil after panic(nil)
                \* (Go before 1.21, or GODEBUG=panicnil=1)
    run,    \* one call of a primitive, statement by statement: its call
            \* stack, the panic in flight and the reports sent so far
    tests   \* the test cases that make several calls: per test case its
            \* sink, the calls it has made and the call it is in

vars == <<tc, res, panicnil, run, tests>>

(***************************************************************************)
(* Bounds of the model.                                                    *)
(***************************************************************************)
MaxNum == 2     \* ordered numbers range over 0..MaxNum
MaxLen == 2     \* expected lengths handed to Len range over 0..MaxLen
MaxSliceLen == 2    \* slices handed to Contains have at most MaxSliceLen elements
MaxWrap == 2    \* errors are wrapped by fmt.Errorf("%w") up to MaxWrap times
MaxCalls == 3   \* a recorder receives up to MaxCalls calls
MaxSeq == 2     \* a test case makes up to MaxSeq assertion calls in a row

(***************************************************************************)
(* Go values.                                                              *)
(*   type  : the text of reflect.TypeOf(v) ("<nil>" for the nil interface) *)
(*   kind  : reflect.Kind ("invalid" for the nil interface)                *)
(*   isnil : v.IsNil() for chan, func, map, pointer, interface, slice      *)
(*   addr  : v.UnsafePointer() of a slice, map, pointer or func; 0 if none *)
(*   num   : the number of an int, float or bool (0/1)                     *)
(*   nan   : a floating-point NaN                                          *)
(*   str   : the text of a string                                          *)
(*   keys  : map keys (in storage order) or struct field names             *)
(*   elems : slice elements, map values, struct fields or the pointee      *)
(***************************************************************************)
Val(type, kind, isnil, addr, num, nan, str, keys, elems) ==
    [type |-> type, kind |-> kind, isnil |-> isnil, addr |-> addr,
     num |-> num, nan |-> nan, str |-> str, keys |-> keys, elems |-> elems]

NilV == Val("<nil>", "invalid", TRUE, 0, 0, FALSE, "", <<>>, <<>>)
IntV(n) == Val("int", "int", FALSE, 0, n, FALSE, "", <<>>, <<>>)
Int64V(n) == Val("int64", "int64", FALSE, 0, n, FALSE, "", <<>>, <<>>)
FloatV(n) == Val("float64", "float64", FALSE, 0, n, FALSE, "", <<>>, <<>>)
NaNV == Val("float64", "float64", FALSE, 0, 0, TRUE, "", <<>>, <<>>)
BoolV(b) == Val("bool", "bool", FALSE, 0, IF b THEN 1 ELSE 0, FALSE, "", <<>>, <<>>)
StrV(s) == Val("string", "string", FALSE, 0, 0, FALSE, s, <<>>, <<>>)
SliceV(type, addr, elems) == Val(type, "slice", FALSE, addr, 0, FALSE, "", <<>>, elems)
NilSliceV(type) == Val(type, "slice", TRUE, 0, 0, FALSE, "", <<>>, <<>>)
ArrayV(type, elems) == Val(type, "array", FALSE, 0, 0, FALSE, "", <<>>, elems)
MapV(type, addr, keys, elems) == Val(type, "map", FALSE, addr, 0, FALSE, "", keys, elems)
NilMapV(type) == Val(type, "map", TRUE, 0, 0, FALSE, "", <<>>, <<>>)
StructV(type, keys, elems) == Val(type, "struct", FALSE, 0, 0, FALSE, "", keys, elems)
PtrV(type, addr, pointee) == Val(type, "ptr", FALSE, addr, 0, FALSE, "", <<>>, <<pointee>>)
NilPtrV(type) == Val(type, "ptr", TRUE, 0, 0, FALSE, "", <<>>, <<>>)
FuncV(addr) == Val("func()", "func", FALSE, addr, 0, FALSE, "", <<>>, <<>>)
NilFuncV == Val("func()", "func", TRUE, 0, 0, FALSE, "", <<>>, <<>>)
ChanV(addr) == Val("chan int", "chan", FALSE, addr, 0, FALSE, "", <<>>, <<>>)
NilChanV == Val("chan int", "chan", TRUE, 0, 0, FALSE, "", <<>>, <<>>)
IfaceV(type, dyn) == Val(type, "interface", dyn.kind = "invalid", 0, 0, FALSE, "", <<>>, <<dyn>>)

\* errors.New(text): a fresh *errors.errorString at address addr
ErrorsNew(addr, text) ==
    PtrV("*errors.errorString", addr,
         StructV("errors.errorString", <<StrV("s")>>, <<StrV(text)>>))

(***************************************************************************)
(* The byte sequence of a string, for Go's ordering of strings.            *)
(***************************************************************************)
Bytes(s) ==
    CASE s = "" -> <<>>
      [] s = "a" -> <<97>>
      [] s = "b" -> <<98>>
      [] s = "c" -> <<99>>
      [] s = "ab" -> <<97, 98>>
      [] s = "x" -> <<120>>
      [] s = "y" -> <<121>>
      [] s = "aa" -> <<97, 97>>
      [] s = "ba" -> <<98, 97>>
      [] s = "a1" -> <<97, 49>>
      [] s = "1" -> <<49>>
      [] OTHER -> <<255>>

RECURSIVE SeqLess(_, _)
SeqLess(p, q) ==
    IF q = <<>> THEN FALSE
    ELSE IF p = <<>> THEN TRUE
    ELSE IF Head(p) /= Head(q) THEN Head(p) < Head(q)
    ELSE SeqLess(Tail(p), Tail(q))

(***************************************************************************)
(* Go's comparison operators on an ordered type (numbers and strings).     *)
(* Every comparison with a NaN operand is false.                           *)
(***************************************************************************)
Lt(x, y) ==
    IF x.kind = "string" THEN SeqLess(Bytes(x.str), Bytes(y.str))
    ELSE ~x.nan /\ ~y.nan /\ x.num < y.num

GoEq(x, y) ==
    IF x.kind = "string" THEN x.str = y.str
    ELSE ~x.nan /\ ~y.nan /\ x.num = y.num

Gt(x, y) == Lt(y, x)
Le(x, y) == Lt(x, y) \/ GoEq(x, y)
Ge(x, y) == Lt(y, x) \/ GoEq(x, y)

(***************************************************************************)
(* reflect.DeepEqual, as isEqual calls it.                                 *)
(***************************************************************************)
\* v.MapIndex(k): the value stored under k, the invalid Value if absent.
\* A NaN key is never found.
MapIndex(m, k) ==
    LET hit == {j \in 1..Len(m.keys) : m.keys[j] = k /\ ~k.nan}
    IN  IF hit = {} THEN NilV ELSE m.elems[CHOOSE j \in hit : TRUE]

\* v.Elem(): the pointee or the dynamic value; the invalid Value of a nil one
Elem(v) == IF v.isnil THEN NilV ELSE v.elems[1]

RECURSIVE deepValueEqual(_, _)
deepValueEqual(v1, v2) ==
    IF v1.kind = "invalid" \/ v2.kind = "invalid" THEN v1.kind = v2.kind
    ELSE IF v1.type /= v2.type THEN FALSE
    ELSE CASE v1.kind = "array" ->
                \A i \in 1..Len(v1.elems) : deepValueEqual(v1.elems[i], v2.elems[i])
           [] v1.kind = "slice" ->
                /\ v1.isnil = v2.isnil
                /\ Len(v1.elems) = Len(v2.elems)
                /\ \/ v1.addr = v2.addr
                   \/ \A i \in 1..Len(v1.elems) : deepValueEqual(v1.elems[i], v2.elems[i])
           [] v1.kind = "interface" ->
                IF v1.isnil \/ v2.isnil THEN v1.isnil = v2.isnil
                ELSE deepValueEqual(Elem(v1), Elem(v2))
           [] v1.kind = "ptr" ->
                \/ v1.addr = v2.addr
                \/ deepValueEqual(Elem(v1), Elem(v2))
           [] v1.kind = "struct" ->
                \A i \in 1..Len(v1.elems) : deepValueEqual(v1.elems[i], v2.elems[i])
           [] v1.kind = "map" ->
                /\ v1.isnil = v2.isnil
                /\ Len(v1.keys) = Len(v2.keys)
                /\ \/ v1.addr = v2.addr
                   \/ \A i \in 1..Len(v1.keys) :
                        LET val1 == MapIndex(v1, v1.keys[i])
                            val2 == MapIndex(v2, v1.keys[i])
                        IN  /\ val1.kind /= "invalid"
                            /\ val2.kind /= "invalid"
                            /\ deepValueEqual(val1, val2)
           [] v1.kind = "func" -> v1.isnil /\ v2.isnil
           [] v1.kind = "string" -> v1.str = v2.str
           [] OTHER -> ~v1.nan /\ ~v2.nan /\ v1.num = v2.num

DeepEqual(x, y) ==
    IF x.kind = "invalid" \/ y.kind = "invalid" THEN x.kind = y.kind
    ELSE IF x.type /= y.type THEN FALSE
    ELSE deepValueEqual(x, y)

(***************************************************************************)
(* isNil of helpers.go.                                                    *)
(***************************************************************************)
\* the comparison with the literal nil alone
isNil_LiteralOnly(value) == value.kind = "invalid"

isNil(value) ==
    IF value.kind = "invalid" THEN TRUE
    ELSE IF value.kind \in {"chan", "func", "map", "ptr", "interface", "slice"}
         THEN value.isnil
         ELSE FALSE

(***************************************************************************)
(* fmt: the %v and %#v verbs and the text of reflect.TypeOf.               *)
(***************************************************************************)
TypeOf(v) == v.type

\* the value that recover() returns after panic(nil) since Go 1.21
PanicNilError ==
    PtrV("*runtime.PanicNilError", 90,
         StructV("runtime.PanicNilError", <<StrV("_")>>, <<ArrayV("[0]func()", <<>>)>>))

\* &testError{code: code} of the tests
TestError(addr, code) ==
    PtrV("*assert.testError", addr,
         StructV("assert.testError", <<StrV("code")>>, <<IntV(code)>>))

\* &aliasError{code: code}: an error of the test code that has the method
\* As(target any) bool, which stores a *testError of its code in a
\* **testError target
AliasError(addr, code) ==
    PtrV("*assert.aliasError", addr,
         StructV("assert.aliasError", <<StrV("code")>>, <<IntV(code)>>))

\* syscall.Errno(n)
Errno(n) == Val("syscall.Errno", "uintptr", FALSE, 0, n, FALSE, "", <<>>, <<>>)

\* &fs.PathError{Op: op, Path: path, Err: err}, as os.Open returns it
PathError(addr, op, path, err) ==
    PtrV("*fs.PathError", addr,
         StructV("fs.PathError", <<StrV("Op"), StrV("Path"), StrV("Err")>>,
                 <<StrV(op), StrV(path), IfaceV("error", err)>>))

\* fs.ErrNotExist and fs.ErrPermission, two errors.New values
ErrNotExist == ErrorsNew(80, "file does not exist")
ErrPermission == ErrorsNew(81, "permission denied")

\* the types of the model that have an Error method
ErrorTypes ==
    {"*errors.errorString", "*runtime.PanicNilError", "*fmt.wrapError",
     "*assert.testError", "syscall.Errno", "*fs.PathError", "*assert.aliasError"}

IsError(v) == v.type \in ErrorTypes /\ ~v.isnil

\* err.Error()
RECURSIVE ErrorText(_)
ErrorText(v) ==
    CASE v.type = "*errors.errorString" -> v.elems[1].elems[1].str
      [] v.type = "*runtime.PanicNilError" ->
            "panic called with nil argument (obsolete option)"
      [] v.type = "*fmt.wrapError" -> v.elems[1].elems[1].str
      [] v.type = "*assert.testError" ->
            "error code: " \o ToString(v.elems[1].elems[1].num)
      [] v.type = "*assert.aliasError" ->
            "alias of code " \o ToString(v.elems[1].elems[1].num)
      [] v.type = "syscall.Errno" ->
            CASE v.num = 1 -> "operation not permitted"
              [] v.num = 2 -> "no such file or directory"
              [] OTHER -> "errno " \o ToString(v.num)
      [] v.type = "*fs.PathError" ->
            v.elems[1].elems[1].str \o " " \o v.elems[1].elems[2].str \o ": " \o
            ErrorText(Elem(v.elems[1].elems[3]))

\* fmt.Errorf(prefix + "%w", err): a fresh *fmt.wrapError at address addr
Errorf_w(addr, prefix, err) ==
    PtrV("*fmt.wrapError", addr,
         StructV("fmt.wrapError", <<StrV("msg"), StrV("err")>>,
                 <<StrV(prefix \o ErrorText(err)), IfaceV("error", err)>>))

Hex(addr) == "0xc000" \o ToString(addr)

RECURSIVE Join(_, _)
Join(parts, sep) ==
    IF parts = <<>> THEN ""
    ELSE IF Len(parts) = 1 THEN parts[1]
    ELSE parts[1] \o sep \o Join(Tail(parts), sep)

\* fmt prints a map with its keys sorted: the positions of m.keys in order
RECURSIVE SortedKeys(_, _)
SortedKeys(m, todo) ==
    IF todo = {} THEN <<>>
    ELSE LET least == CHOOSE i \in todo :
                          \A j \in todo \ {i} :
                              \/ Lt(m.keys[i], m.keys[j])
                              \/ (~Lt(m.keys[j], m.keys[i]) /\ i < j)
         IN  <<least>> \o SortedKeys(m, todo \ {least})

\* fmt.Sprintf("%v", v); depth 0 is the operand itself
RECURSIVE SprintAt(_, _)
SprintAt(v, depth) ==
    CASE v.kind = "invalid" -> "<nil>"
      [] v.kind = "string" -> v.str
      [] v.kind = "bool" -> IF v.num = 1 THEN "true" ELSE "false"
      [] v.kind \in {"int", "int64", "float64"} ->
            IF v.nan THEN "NaN" ELSE ToString(v.num)
      [] v.kind \in {"slice", "array"} ->
            "[" \o Join([i \in 1..Len(v.elems) |-> SprintAt(v.elems[i], depth + 1)], " ")
            \o "]"
      [] v.kind = "map" ->
            LET order == SortedKeys(v, 1..Len(v.keys))
            IN  "map[" \o Join([i \in 1..Len(order) |->
                                  SprintAt(v.keys[order[i]], depth + 1) \o ":" \o
                                  SprintAt(v.elems[order[i]], depth + 1)], " ") \o "]"
      [] v.kind = "struct" ->
            "{" \o Join([i \in 1..Len(v.elems) |-> SprintAt(v.elems[i], depth + 1)], " ")
            \o "}"
      [] v.kind = "ptr" ->
            IF v.isnil THEN "<nil>"
            ELSE IF IsError(v) THEN ErrorText(v)
            ELSE IF depth = 0 /\ v.elems[1].kind \in {"struct", "slice", "array", "map"}
                 THEN "&" \o SprintAt(v.elems[1], depth + 1)
                 ELSE Hex(v.addr)
      [] v.kind = "interface" ->
            IF v.isnil THEN "<nil>" ELSE SprintAt(v.elems[1], depth)
      [] v.kind = "uintptr" -> IF IsError(v) THEN ErrorText(v) ELSE ToString(v.num)
      [] OTHER -> IF v.isnil THEN "<nil>" ELSE Hex(v.addr)

\* fmt.Sprint(v)
Sprint(v) == SprintAt(v, 0)

\* fmt.Sprintf("%#v", v); depth 0 is the operand itself
RECURSIVE GoSyntaxAt(_, _)
GoSyntaxAt(v, depth) ==
    CASE v.kind = "invalid" -> "<nil>"
      [] v.kind = "string" -> "\"" \o v.str \o "\""
      [] v.kind = "bool" -> IF v.num = 1 THEN "true" ELSE "false"
      [] v.kind \in {"int", "int64", "float64"} ->
            IF v.nan THEN "NaN" ELSE ToString(v.num)
      [] v.kind \in {"slice", "array"} ->
            IF v.isnil THEN v.type \o "(nil)"
            ELSE v.type \o "{" \o
                 Join([i \in 1..Len(v.elems) |-> GoSyntaxAt(v.elems[i], depth + 1)], ", ")
                 \o "}"
      [] v.kind = "map" ->
            IF v.isnil THEN v.type \o "(nil)"
            ELSE LET order == SortedKeys(v, 1..Len(v.keys))
                 IN  v.type \o "{" \o
                     Join([i \in 1..Len(order) |->
                             GoSyntaxAt(v.keys[order[i]], depth + 1) \o ":" \o
                             GoSyntaxAt(v.elems[order[i]], depth + 1)], ", ") \o "}"
      [] v.kind = "struct" ->
            v.type \o "{" \o
            Join([i \in 1..Len(v.elems) |->
                    v.keys[i].str \o ":" \o GoSyntaxAt(v.elems[i], depth + 1)], ", ")
            \o "}"
      [] v.kind = "ptr" ->
            IF v.isnil THEN "(" \o v.type \o ")(nil)"
            ELSE IF depth = 0 /\ v.elems[1].kind \in {"struct", "slice", "array", "map"}
                 THEN "&" \o GoSyntaxAt(v.elems[1], depth + 1)
                 ELSE "(" \o v.type \o ")(" \o Hex(v.addr) \o ")"
      [] v.kind = "interface" ->
            IF v.isnil THEN v.type \o "(nil)" ELSE GoSyntaxAt(v.elems[1], depth)
      [] v.kind = "uintptr" -> "0x" \o ToString(v.num)
      [] OTHER ->
            IF v.isnil THEN "(" \o v.type \o ")(nil)"
            ELSE "(" \o v.type \o ")(" \o Hex(v.addr) \o ")"

GoSyntax(v) == GoSyntaxAt(v, 0)

(***************************************************************************)
(* isEqual of helpers.go.                                                  *)
(***************************************************************************)
\* pointers compared by address, without following them
isEqual_PtrIdentity(x, y) ==
    IF x.kind = "ptr" /\ y.kind = "ptr" THEN x.addr = y.addr ELSE DeepEqual(x, y)

\* a comparison of the text renderings instead of the values
isEqual_ByText(x, y) == Sprint(x) = Sprint(y)

isEqual(x, y) == DeepEqual(x, y)

(***************************************************************************)
(* The host sink: TestRecorder of helpers.go.  log is everything that was  *)
(* sent to the sink, oldest first; each entry is the sequence of pieces    *)
(* the report was built from.                                              *)
(***************************************************************************)
NewTestRecorder ==
    [errorCalled |-> FALSE, errorMessage |-> "", helperCalled |-> FALSE, log |-> <<>>]

\* one formatted piece of a report: "<label>: (<type>) <value>"
Piece(label, type, value) == [label |-> label, type |-> type, value |-> value]

PieceText(p) ==
    CASE p.label = "Message" -> "\n Message: " \o p.value
      [] p.label = "Expected" -> "\nExpected: (" \o p.type \o ") " \o p.value \o "\n"
      [] p.label = "Actual" /\ p.type /= "" ->
            "  Actual: (" \o p.type \o ") " \o p.value \o "\n"
      [] p.label = "Expected panic" -> "\nExpected panic: " \o p.value
      [] p.label = "Actual" -> "\n  Actual: " \o p.value
      [] p.label = "" -> "\n" \o p.value
      [] OTHER -> "\n" \o p.label \o ": " \o p.value

\* builder.String(), fmt.Sprintf(format, args...)
ReportText(pieces) == Join([i \in 1..Len(pieces) |-> PieceText(pieces[i])], "")

\* a recorder that keeps the earlier texts in front of the new one
TestRecorder_Error_Appending(r, pieces) ==
    [r EXCEPT !.errorCalled = TRUE,
              !.errorMessage = @ \o ReportText(pieces),
              !.log = Append(@, [method |-> "Error", pieces |-> pieces])]

TestRecorder_Error(r, pieces) ==
    [r EXCEPT !.errorCalled = TRUE,
              !.errorMessage = ReportText(pieces),
              !.log = Append(@, [method |-> "Error", pieces |-> pieces])]

TestRecorder_Errorf(r, pieces) ==
    [r EXCEPT !.errorCalled = TRUE,
              !.errorMessage = ReportText(pieces),
              !.log = Append(@, [method |-> "Errorf", pieces |-> pieces])]

\* a recorder that forgets its failure when a new call announces itself
TestRecorder_Helper_Reset(r) == [r EXCEPT !.helperCalled = TRUE, !.errorCalled = FALSE]

TestRecorder_Helper(r) == [r EXCEPT !.helperCalled = TRUE]

HasError(r) == r.errorCalled
ErrorMessage(r) == r.errorMessage
HelperCalled(r) == r.helperCalled

(***************************************************************************)
(* helpers.go: failCompare and compare.                                    *)
(***************************************************************************)
failCompare(t, actual, expected, msg) ==
    LET t1 == TestRecorder_Helper(t)
        head == IF Len(msg) > 0 /\ msg[1] /= ""
                THEN <<Piece("Message", "", msg[1])>>
                ELSE <<>>
        exptectedType == TypeOf(actual)
        actualType == TypeOf(expected)
        builder == head \o <<Piece("Expected", exptectedType, GoSyntax(expected)),
                             Piece("Actual", actualType, GoSyntax(actual))>>
    IN  TestRecorder_Error(t1, builder)

\* the test of compare, inverted
compare_Inverted(t, actual, expected, msg) ==
    LET t1 == TestRecorder_Helper(t)
    IN  IF isEqual(expected, actual)
        THEN failCompare(t1, expected, actual, msg)
        ELSE t1

compare(t, actual, expected, msg) ==
    LET t1 == TestRecorder_Helper(t)
    IN  IF ~isEqual(expected, actual)
        THEN failCompare(t1, expected, actual, msg)
        ELSE t1

\* the source position printed by the usage errors of Empty and Len
location == "file.go:42"

(***************************************************************************)
(* assert.go                                                               *)
(***************************************************************************)
\* actual and expected handed to compare in the order of its parameters
Equals_Unswapped(t, actual, expected, msg) ==
    compare(TestRecorder_Helper(t), actual, expected, msg)

Equals(t, actual, expected, msg) ==
    compare(TestRecorder_Helper(t), expected, actual, msg)

\* a comparison of the error texts instead of the error values
IfaceEq_ByText(x, y) == Sprint(x) = Sprint(y)

\* Go's == on two interface values holding comparable dynamic values
RECURSIVE IfaceEq(_, _)
IfaceEq(x, y) ==
    IF x.kind = "invalid" \/ y.kind = "invalid" THEN x.kind = y.kind
    ELSE IF x.type /= y.type THEN FALSE
    ELSE CASE x.kind = "ptr" -> x.addr = y.addr
           [] x.kind = "string" -> x.str = y.str
           [] x.kind = "struct" ->
                \A i \in 1..Len(x.elems) : IfaceEq(x.elems[i], y.elems[i])
           [] OTHER -> ~x.nan /\ ~y.nan /\ x.num = y.num

Error(t, actual, expected) ==
    LET t0 == TestRecorder_Helper(t)
        t1 == IF actual.kind = "invalid" /\ expected.kind /= "invalid"
              THEN failCompare(t0, expected, actual, <<"expected error but got nil">>)
              ELSE t0
        t2 == IF actual.kind /= "invalid" /\ expected.kind = "invalid"
              THEN failCompare(t1, expected, actual, <<"expected nil error">>)
              ELSE t1
    IN  IF ~IfaceEq(actual, expected)
        THEN failCompare(t2, expected, actual, <<>>)
        ELSE t2

\* err.Unwrap() of the errors that have the method, nil for the others
Unwrap(err) ==
    CASE err.type = "*fmt.wrapError" /\ ~err.isnil -> Elem(err.elems[1].elems[2])
      [] err.type = "*fs.PathError" /\ ~err.isnil -> Elem(err.elems[1].elems[3])
      [] OTHER -> NilV

\* err.Is(target) of the errors that have the method: syscall.Errno
HasIsMethod(err) == err.type = "syscall.Errno"

IsMethod(err, target) ==
    \/ target = ErrNotExist /\ err.num = 2
    \/ target = ErrPermission /\ err.num = 1

\* errors.Is without the walk along Unwrap
errors_Is_TopOnly(err, target) ==
    IF err.kind = "invalid" \/ target.kind = "invalid" THEN err.kind = target.kind
    ELSE IfaceEq(err, target) \/ (HasIsMethod(err) /\ IsMethod(err, target))

\* errors.Is(err, target); every target of the model has a comparable type
RECURSIVE errors_Is(_, _)
errors_Is(err, target) ==
    IF err.kind = "invalid" \/ target.kind = "invalid" THEN err.kind = target.kind
    ELSE IF IfaceEq(err, target) THEN TRUE
    ELSE IF HasIsMethod(err) /\ IsMethod(err, target) THEN TRUE
    ELSE IF Unwrap(err).kind = "invalid" THEN FALSE
    ELSE errors_Is(Unwrap(err), target)

ErrorIs(t, err, target, msg) ==
    LET t1 == TestRecorder_Helper(t)
    IN  IF ~errors_Is(err, target)
        THEN failCompare(t1, err, StrV("error chain containing " \o Sprint(target)), msg)
        ELSE t1

\* reflect.TypeOf(err).AssignableTo(targetType): the same type, or the
\* interface error, which every error implements
AssignableTo(type, targetType) == type = targetType \/ targetType = "error"

\* err.As(target) of the errors that have the method: whether it accepts
\* the target, and what it stores in it
HasAsMethod(err) == err.type = "*assert.aliasError" /\ ~err.isnil

AsMethod(err, target) ==
    IF target.type = "*assert.testError"
    THEN [ok |-> TRUE,
          target |-> [target EXCEPT !.val =
                         TestError(err.addr + 1, err.elems[1].elems[1].num)]]
    ELSE [ok |-> FALSE, target |-> target]

\* errors.As that prefers the innermost error of the chain
RECURSIVE errors_As_Innermost(_, _)
errors_As_Innermost(err, target) ==
    LET inner == IF err.kind = "invalid" THEN [ok |-> FALSE, target |-> target]
                 ELSE errors_As_Innermost(Unwrap(err), target)
    IN  IF err.kind = "invalid" \/ inner.ok THEN inner
        ELSE IF AssignableTo(TypeOf(err), target.type)
        THEN [ok |-> TRUE, target |-> [target EXCEPT !.val = err]]
        ELSE IF HasAsMethod(err) /\ AsMethod(err, target).ok THEN AsMethod(err, target)
        ELSE [ok |-> FALSE, target |-> target]

\* errors.As(err, target), target a non-nil pointer to a variable of type
\* target.type that holds target.val: the result and the variable after
RECURSIVE errors_As(_, _)
errors_As(err, target) ==
    IF err.kind = "invalid" THEN [ok |-> FALSE, target |-> target]
    ELSE IF AssignableTo(TypeOf(err), target.type)
         THEN [ok |-> TRUE, target |-> [target EXCEPT !.val = err]]
    ELSE IF HasAsMethod(err) /\ AsMethod(err, target).ok THEN AsMethod(err, target)
    ELSE errors_As(Unwrap(err), target)

\* the sink and the target variable after ErrorAs(t, err, &target, msg...)
ErrorAs(t, err, target, msg) ==
    LET t1 == TestRecorder_Helper(t)
        r == errors_As(err, target)
    IN  [sink |-> IF ~r.ok
                  THEN failCompare(t1, err,
                                   StrV("error matching type *" \o target.type), msg)
                  ELSE t1,
         target |-> r.target]

False(t, value, msg) ==
    LET t1 == TestRecorder_Helper(t)
    IN  IF value.num = 1 THEN failCompare(t1, BoolV(FALSE), value, msg) ELSE t1

Nil(t, value) ==
    LET t1 == TestRecorder_Helper(t)
    IN  IF ~isNil(value) THEN failCompare(t1, value, NilV, <<>>) ELSE t1

\* the test of NotEquals, inverted
NotEquals_Inverted(t, actual, expected, msg) ==
    LET t1 == TestRecorder_Helper(t)
    IN  IF ~isEqual(actual, expected)
        THEN failCompare(t1, StrV("values to be different"),
                         StrV("both values are equal: " \o Sprint(actual)), msg)
        ELSE t1

NotEquals(t, actual, expected, msg) ==
    LET t1 == TestRecorder_Helper(t)
    IN  IF isEqual(actual, expected)
        THEN failCompare(t1, StrV("values to be different"),
                         StrV("both values are equal: " \o Sprint(actual)), msg)
        ELSE t1

NotNil(t, value) ==
    LET t1 == TestRecorder_Helper(t)
    IN  IF isNil(value)
        THEN TestRecorder_Error(t1, <<Piece("", "", "expected value to not be nil")>>)
        ELSE t1

\* fn is [panics, payload]: whether the call panics, and with which value;
\* recover() yields the payload of a panicking fn and nil otherwise
\* what panic(v) raises: the runtime replaces a nil v unless panicnil
gopanic(v) == IF v = NilV /\ ~panicnil THEN PanicNilError ELSE v

\* recover() in the function deferred by Panics, after fn() has ended
recover(fn) == IF fn.panics THEN gopanic(fn.payload) ELSE NilV

\* the function that Panics defers, r being what its recover() returned
PanicsDeferred(t, r, expectedMsg) ==
    IF r.kind /= "invalid"
    THEN LET actualMsg == Sprint(r)
         IN  IF actualMsg /= expectedMsg
             THEN failCompare(t, StrV(expectedMsg), StrV(actualMsg),
                              <<"unexpected panic message">>)
             ELSE t
    ELSE TestRecorder_Errorf(t, <<Piece("Expected panic", "", expectedMsg),
                                  Piece("Actual", "", "no panic")>>)

Panics(t, fn, expectedMsg) ==
    PanicsDeferred(TestRecorder_Helper(t), recover(fn), expectedMsg)

True(t, value, msg) ==
    LET t1 == TestRecorder_Helper(t)
    IN  IF value.num /= 1 THEN failCompare(t1, BoolV(TRUE), value, msg) ELSE t1

(***************************************************************************)
(* constraints.go                                                          *)
(***************************************************************************)
Between(t, actual, min, max) ==
    LET t1 == TestRecorder_Helper(t)
    IN  IF Lt(actual, min) \/ Gt(actual, max)
        THEN failCompare(t1, StrV("Between " \o Sprint(min) \o " and " \o Sprint(max)),
                         actual, <<"value not within expected range">>)
        ELSE t1

Greater(t, actual, min) ==
    LET t1 == TestRecorder_Helper(t)
    IN  IF Le(actual, min)
        THEN failCompare(t1, StrV("> " \o Sprint(min)), actual,
                         <<"value not greater than minimum">>)
        ELSE t1

GreaterOrEqual(t, actual, min, msg) ==
    LET t1 == TestRecorder_Helper(t)
    IN  IF Lt(actual, min)
        THEN failCompare(t1, actual, StrV(">= " \o Sprint(min)), msg)
        ELSE t1

LessOrEqual(t, actual, max, msg) ==
    LET t1 == TestRecorder_Helper(t)
    IN  IF Gt(actual, max)
        THEN failCompare(t1, actual, StrV("<= " \o Sprint(max)), msg)
        ELSE t1

(***************************************************************************)
(* collection.go                                                           *)
(***************************************************************************)
\* reflect's v.Len() of a slice, array, map or string
ValueLen(v) ==
    CASE v.kind = "map" -> Len(v.keys)
      [] v.kind = "string" -> Len(v.str)
      [] OTHER -> Len(v.elems)

\* the unsupported kinds reported the way a non-empty collection is
Empty_ViaFailCompare(t, collection, msg) ==
    LET t1 == TestRecorder_Helper(t)
    IN  IF collection.kind \in {"slice", "array", "map", "string"} /\ ValueLen(collection) = 0
        THEN t1
        ELSE failCompare(t1, StrV("empty colleciton"), StrV(TypeOf(collection)), msg)

Empty(t, collection, msg) ==
    LET t1 == TestRecorder_Helper(t)
    IN  IF collection.kind \in {"slice", "array", "map", "string"}
        THEN IF ValueLen(collection) /= 0
             THEN failCompare(t1, StrV("empty colleciton"),
                              StrV("collection with length " \o
                                   ToString(ValueLen(collection))), msg)
             ELSE t1
        ELSE TestRecorder_Errorf(t1,
                 <<Piece("", "", location),
                   Piece("Empty called with unsupported type", "", TypeOf(collection))>>)

AssertLen(t, collection, expected) ==
    LET t1 == TestRecorder_Helper(t)
    IN  IF collection.kind \in {"slice", "array", "map", "string"}
        THEN IF ValueLen(collection) /= expected
             THEN failCompare(t1, IntV(expected), IntV(ValueLen(collection)),
                              <<"unexpected length">>)
             ELSE t1
        ELSE TestRecorder_Errorf(t1,
                 <<Piece("", "", location),
                   Piece("Len called with unsupported type", "", TypeOf(collection))>>)

\* an element of a slice, as the value of type T that range yields: the
\* dynamic value of an element of interface type
Load(v) == IF v.kind = "interface" THEN Elem(v) ELSE v

\* for _, v := range slice { if isEqual(v, element) { return } }
RECURSIVE Scan(_, _)
Scan(elems, element) ==
    IF elems = <<>> THEN FALSE
    ELSE IF isEqual(Load(Head(elems)), element) THEN TRUE
    ELSE Scan(Tail(elems), element)

Contains(t, slice, element) ==
    LET t1 == TestRecorder_Helper(t)
    IN  IF Scan(slice.elems, element)
        THEN t1
        ELSE failCompare(t1, element, slice, <<"slice does not contain expected element">>)

\* the loop of NotContains over the elements not yet visited
RECURSIVE NotContainsFrom(_, _, _, _, _)
NotContainsFrom(t, slice, rest, element, msg) ==
    IF rest = <<>> THEN t
    ELSE IF isEqual(Load(Head(rest)), element)
         THEN failCompare(t, slice, StrV("should not contain " \o Sprint(element)), msg)
         ELSE NotContainsFrom(t, slice, Tail(rest), element, msg)

\* a test of the first element only
NotContains_FirstOnly(t, slice, element, msg) ==
    LET t1 == TestRecorder_Helper(t)
    IN  IF slice.elems /= <<>> /\ isEqual(Load(Head(slice.elems)), element)
        THEN failCompare(t1, slice, StrV("should not contain " \o Sprint(element)), msg)
        ELSE t1

NotContains(t, slice, element, msg) ==
    NotContainsFrom(TestRecorder_Helper(t), slice, slice.elems, element, msg)

\* m[key] of HasKey: whether the key is present
HasKey(t, m, key) ==
    LET t1 == TestRecorder_Helper(t)
        ok == MapIndex(m, key) /= NilV
    IN  IF ~ok
        THEN failCompare(t1, key, m, <<"map does not contain expected key">>)
        ELSE t1

\* strings.HasPrefix, strings.HasSuffix and strings.Contains on the bytes
strings_HasPrefix(s, prefix) ==
    /\ Len(Bytes(s)) >= Len(Bytes(prefix))
    /\ SubSeq(Bytes(s), 1, Len(Bytes(prefix))) = Bytes(prefix)

strings_HasSuffix(s, suffix) ==
    /\ Len(Bytes(s)) >= Len(Bytes(suffix))
    /\ SubSeq(Bytes(s), Len(Bytes(s)) - Len(Bytes(suffix)) + 1, Len(Bytes(s))) = Bytes(suffix)

strings_Contains(s, substr) ==
    \E k \in 0..Len(Bytes(s)) :
        /\ k + Len(Bytes(substr)) <= Len(Bytes(s))
        /\ SubSeq(Bytes(s), k + 1, k + Len(Bytes(substr))) = Bytes(substr)

\* %q of a string that holds no character strconv.Quote escapes
Quote(s) == "\"" \o s \o "\""

HasPrefix(t, s, prefix, msg) ==
    LET t1 == TestRecorder_Helper(t)
    IN  IF ~strings_HasPrefix(s, prefix)
        THEN failCompare(t1, StrV(s), StrV("should start with " \o Quote(prefix)), msg)
        ELSE t1

HasSuffix(t, s, suffix, msg) ==
    LET t1 == TestRecorder_Helper(t)
    IN  IF ~strings_HasSuffix(s, suffix)
        THEN failCompare(t1, StrV(s), StrV("should end with " \o Quote(suffix)), msg)
        ELSE t1

StringContains(t, s, substr) ==
    LET t1 == TestRecorder_Helper(t)
    IN  IF ~strings_Contains(s, substr)
        THEN failCompare(t1, StrV(substr), StrV(s),
                         <<"string does not contain expected substring">>)
        ELSE t1

\* A compiled pattern: whether it is anchored at the start and at the end
\* of the text, and its items, each a class of bytes taken min times or
\* more (many) or min to one times.
Item(class, min, many) == [class |-> class, min |-> min, many |-> many]
Prog(bol, eol, items) == [ok |-> TRUE, err |-> "", bol |-> bol, eol |-> eol, items |-> items]
\* the text of a syntax.Error; the backquotes that Go puts around the
\* expression are written as single quotes
SyntaxError(code, expr) ==
    [ok |-> FALSE, err |-> "error parsing regexp: " \o code \o ": '" \o expr \o "'",
     bol |-> FALSE, eol |-> FALSE, items |-> <<>>]

\* regexp.Compile on the patterns of the test cases
regexp_Compile(pattern) ==
    CASE pattern = "" -> Prog(FALSE, FALSE, <<>>)
      [] pattern = "a" -> Prog(FALSE, FALSE, <<Item({97}, 1, FALSE)>>)
      [] pattern = "^$" -> Prog(TRUE, TRUE, <<>>)
      [] pattern = "^a+$" -> Prog(TRUE, TRUE, <<Item({97}, 1, TRUE)>>)
      [] pattern = "a*b" -> Prog(FALSE, FALSE, <<Item({97}, 0, TRUE), Item({98}, 1, FALSE)>>)
      [] pattern = "^[a-z]+[0-9]+$" ->
             Prog(TRUE, TRUE, <<Item(97..122, 1, TRUE), Item(48..57, 1, TRUE)>>)
      [] pattern = "[" -> SyntaxError("missing closing ]", "[")
      [] pattern = "(" -> SyntaxError("missing closing )", "(")
      [] pattern = "*" -> SyntaxError("missing argument to repetition operator", "*")

\* whether the items match a prefix of the bytes (all of them under eol)
RECURSIVE MatchHere(_, _, _)
MatchHere(items, bs, eol) ==
    IF items = <<>> THEN (~eol \/ bs = <<>>)
    ELSE LET it == Head(items)
         IN  \/ it.min = 0 /\ MatchHere(Tail(items), bs, eol)
             \/ /\ bs /= <<>>
                /\ Head(bs) \in it.class
                /\ \/ MatchHere(Tail(items), Tail(bs), eol)
                   \/ it.many /\ MatchHere(<<Item(it.class, 0, TRUE)>> \o Tail(items),
                                           Tail(bs), eol)

\* re.MatchString(s): a match that starts anywhere, at 0 only under bol
Regexp_MatchString(re, s) ==
    \E k \in 0..Len(Bytes(s)) :
        /\ re.bol => k = 0
        /\ MatchHere(re.items, SubSeq(Bytes(s), k + 1, Len(Bytes(s))), re.eol)

\* regexp.MatchString(pattern, s): <<matched, err>>, err "" standing for nil
regexp_MatchString(pattern, s) ==
    LET re == regexp_Compile(pattern)
    IN  IF ~re.ok THEN [matched |-> FALSE, err |-> re.err]
        ELSE [matched |-> Regexp_MatchString(re, s), err |-> ""]

\* MatchRegexp without the return that follows the report of the error
MatchRegexp_NoReturn(t, s, pattern, msg) ==
    LET t1 == TestRecorder_Helper(t)
        r == regexp_MatchString(pattern, s)
        t2 == IF r.err /= ""
              THEN failCompare(t1, StrV(pattern), StrV("valid regexp pattern"),
                               <<"invalid regexp: " \o r.err>> \o msg)
              ELSE t1
    IN  IF ~r.matched
        THEN failCompare(t2, StrV(s), StrV("should match pattern " \o Quote(pattern)), msg)
        ELSE t2

MatchRegexp(t, s, pattern, msg) ==
    LET t1 == TestRecorder_Helper(t)
        r == regexp_MatchString(pattern, s)
    IN  IF r.err /= ""
        THEN failCompare(t1, StrV(pattern), StrV("valid regexp pattern"),
                         <<"invalid regexp: " \o r.err>> \o msg)
        ELSE IF ~r.matched
        THEN failCompare(t1, StrV(s), StrV("should match pattern " \o Quote(pattern)), msg)
        ELSE t1

(***************************************************************************)
(* The inputs of the calls under test.                                     *)
(***************************************************************************)
\* the optional trailing custom message: absent, empty, or given
Msgs == {<<>>, <<"">>, <<"custom message">>}

\* two errors with one text at distinct addresses, and one with another text
ErrOne == ErrorsNew(1, "error one")
ErrTwo == ErrorsNew(2, "error two")
ErrOneAgain == ErrorsNew(3, "error one")

ErrVals == {NilV, ErrOne, ErrTwo, ErrOneAgain}

StructA(addr, strs) ==
    StructV("struct { A []string }", <<StrV("A")>>,
            <<SliceV("[]string", addr, [i \in 1..Len(strs) |-> StrV(strs[i])])>>)

MapSI(addr, keys, nums) ==
    MapV("map[string]int", addr, [i \in 1..Len(keys) |-> StrV(keys[i])],
         [i \in 1..Len(nums) |-> IntV(nums[i])])

SliceI(addr, nums) == SliceV("[]int", addr, [i \in 1..Len(nums) |-> IntV(nums[i])])

\* values handed to Equals, NotEquals, Nil and NotNil
AnyVals ==
    ErrVals \cup
    {IntV(42), IntV(43), Int64V(42), StrV("42"), StrV("test"), StrV(""),
     FloatV(1), NaNV, BoolV(TRUE), IntV(0),
     SliceI(10, <<1, 2>>), SliceI(11, <<2, 1>>), SliceI(12, <<1, 2>>),
     SliceI(13, <<>>), NilSliceV("[]int"),
     SliceV("[]float64", 14, <<NaNV>>),
     SliceV("[]interface {}", 15, <<IfaceV("interface {}", IntV(42))>>),
     SliceV("[]interface {}", 16, <<IfaceV("interface {}", StrV("42"))>>),
     MapSI(20, <<"a", "b">>, <<1, 2>>), MapSI(21, <<"b", "a">>, <<2, 1>>),
     MapSI(22, <<"a">>, <<1>>), MapSI(23, <<"a", "b">>, <<2, 1>>),
     MapSI(24, <<>>, <<>>), NilMapV("map[string]int"),
     StructA(30, <<"a", "b">>), StructA(31, <<"b", "a">>), StructA(32, <<"a", "b">>),
     StructV("struct {}", <<>>, <<>>),
     StructV("struct { F float64 }", <<StrV("F")>>, <<NaNV>>),
     ArrayV("[2]int", <<IntV(1), IntV(2)>>),
     FuncV(40), NilFuncV, NilPtrV("*string")}

\* values of the ordered types: int, float64 and string
OrdInts == {IntV(n) : n \in 0..MaxNum}
OrdFloats == {FloatV(n) : n \in 0..MaxNum} \cup {NaNV}
OrdStrs == {StrV(""), StrV("a"), StrV("ab"), StrV("b"), StrV("c")}

\* values handed to Empty and Len
CollVals ==
    {SliceI(10, <<1, 2>>), SliceI(13, <<>>), NilSliceV("[]int"),
     MapSI(20, <<"a", "b">>, <<1, 2>>), MapSI(22, <<"a">>, <<1>>),
     MapSI(24, <<>>, <<>>), NilMapV("map[string]int"),
     StrV(""), StrV("a"), StrV("ab"), ArrayV("[2]int", <<IntV(1), IntV(2)>>),
     IntV(42), NilV, BoolV(TRUE), NilPtrV("*string")}

\* values handed to Nil and NotNil
NilVals == AnyVals \cup {NilChanV, ChanV(50), PtrV("*int", 51, IntV(0))}

\* the slices and the elements handed to Contains and NotContains
SeqsUpTo(S, n) == UNION {[1..k -> S] : k \in 0..n}

IntSlices ==
    {SliceV("[]int", 100, elems) : elems \in SeqsUpTo(OrdInts, MaxSliceLen)}
    \cup {NilSliceV("[]int")}

AnySlices ==
    {SliceV("[]interface {}", 101, elems) :
        elems \in SeqsUpTo({IfaceV("interface {}", v) : v \in {IntV(42), StrV("42"), NilV}},
                           MaxSliceLen)}

ContainsCases ==
    {<<sl, e>> : sl \in IntSlices, e \in OrdInts}
    \cup {<<sl, e>> : sl \in AnySlices, e \in {IntV(42), StrV("42"), NilV}}
    \cup {<<sl, e>> : sl \in {SliceV("[]float64", 14, <<NaNV>>),
                              SliceV("[]float64", 17, <<FloatV(1), NaNV>>)},
                       e \in {NaNV, FloatV(1)}}

\* the strings handed to HasPrefix, HasSuffix, StringContains and MatchRegexp
Texts == {"", "a", "b", "ab", "aa", "ba", "a1"}

\* the patterns handed to MatchRegexp, those that do not compile among them
Patterns == {"", "a", "^$", "^a+$", "a*b", "^[a-z]+[0-9]+$", "[", "(", "*"}

\* the maps and keys handed to HasKey
KeyMaps == {MapSI(20, <<"a", "b">>, <<1, 2>>), MapSI(24, <<>>, <<>>), NilMapV("map[string]int")}
Keys == {StrV("a"), StrV("c"), StrV("")}

\* err wrapped n times by fmt.Errorf("wrapped: %w", ...)
RECURSIVE Wrapped(_, _)
Wrapped(err, n) ==
    IF n = 0 THEN err ELSE Errorf_w(60 + n, "wrapped: ", Wrapped(err, n - 1))

\* the errors and the targets handed to ErrorIs
IsErrs ==
    {NilV, TestError(70, 404), Errno(2), Errno(1),
     PathError(71, "open", "missing", Errno(2)),
     Wrapped(PathError(71, "open", "missing", Errno(2)), 1)}
    \cup {Wrapped(e, n) : e \in {ErrOne, ErrTwo}, n \in 0..MaxWrap}

IsTargets == {NilV, ErrOne, ErrOneAgain, Wrapped(ErrOne, 1), ErrNotExist, ErrPermission, Errno(2)}

\* the errors handed to ErrorAs
AsErrs ==
    {NilV, ErrOne, AliasError(74, 404), Wrapped(AliasError(74, 404), 1),
     Wrapped(PathError(71, "open", "missing", Errno(2)), 1)}
    \cup {Wrapped(TestError(70, 404), n) : n \in 0..MaxWrap}

\* the target variables handed to ErrorAs: a *testError, an error and a
\* *fs.PathError, nil or holding a value from before the call
AsTargets ==
    {[type |-> "*assert.testError", val |-> NilPtrV("*assert.testError")],
     [type |-> "*assert.testError", val |-> TestError(73, 500)],
     [type |-> "*fs.PathError", val |-> NilPtrV("*fs.PathError")],
     [type |-> "error", val |-> NilV],
     [type |-> "error", val |-> ErrTwo]}

\* the functions handed to Panics, and the expected messages
Fns ==
    {[panics |-> FALSE, payload |-> NilV]} \cup
    {[panics |-> TRUE, payload |-> v] : v \in {StrV("boom"), StrV("42"), IntV(42), ErrOne, NilV}}

PanicMsgs ==
    {"boom", "42", "error one", "", "<nil>", "panic called with nil argument (obsolete option)"}

NoFn == [panics |-> FALSE, payload |-> NilV]

TC(fam, a, b, c, n, msg, fn, str) ==
    [fam |-> fam, a |-> a, b |-> b, c |-> c, n |-> n, msg |-> msg, fn |-> fn, str |-> str]

TestCases ==
    {TC("eq", a, b, NilV, 0, msg, NoFn, "") : a \in AnyVals, b \in AnyVals, msg \in Msgs}
    \cup {TC("err", a, b, NilV, 0, <<>>, NoFn, "") : a \in ErrVals, b \in ErrVals}
    \cup {TC("nil", a, NilV, NilV, 0, <<>>, NoFn, "") : a \in NilVals}
    \cup {TC("contains", c[1], c[2], NilV, 0, msg, NoFn, "") :
              c \in ContainsCases, msg \in Msgs}
    \cup {TC("bool", BoolV(v), NilV, NilV, 0, msg, NoFn, "") : v \in BOOLEAN, msg \in Msgs}
    \cup {TC("ord", a, b, c, 0, msg, NoFn, "") :
              a \in OrdInts, b \in OrdInts, c \in OrdInts, msg \in Msgs}
    \cup {TC("ord", a, b, c, 0, msg, NoFn, "") :
              a \in OrdFloats, b \in OrdFloats, c \in OrdFloats, msg \in Msgs}
    \cup {TC("ord", a, b, c, 0, msg, NoFn, "") :
              a \in OrdStrs, b \in OrdStrs, c \in OrdStrs, msg \in Msgs}
    \cup {TC("coll", a, NilV, NilV, n, msg, NoFn, "") :
              a \in CollVals, n \in 0..MaxLen, msg \in Msgs}
    \cup {TC("str", StrV(x), StrV(y), NilV, 0, msg, NoFn, "") :
              x \in Texts, y \in Texts, msg \in Msgs}
    \cup {TC("re", StrV(x), StrV(p), NilV, 0, msg, NoFn, "") :
              x \in Texts, p \in Patterns, msg \in Msgs}
    \cup {TC("key", m, k, NilV, 0, <<>>, NoFn, "") : m \in KeyMaps, k \in Keys}
    \cup {TC("is", e, x, NilV, 0, msg, NoFn, "") : e \in IsErrs, x \in IsTargets, msg \in Msgs}
    \cup {TC("as", e, x.val, NilV, 0, msg, NoFn, x.type) :
              e \in AsErrs, x \in AsTargets, msg \in Msgs}
    \cup {TC("panic", NilV, NilV, NilV, 0, <<>>, fn, str) : fn \in Fns, str \in PanicMsgs}

Ops ==
    {"Equals", "NotEquals", "Error", "Nil", "NotNil", "True", "False", "Panics",
     "Between", "Greater", "GreaterOrEqual", "LessOrEqual", "Empty", "Len",
     "Contains", "NotContains", "HasKey", "HasPrefix", "HasSuffix", "StringContains",
     "MatchRegexp", "ErrorIs", "ErrorAs"}

\* an error of a type that == cannot compare: type multiError []string
MultiError(addr, texts) ==
    SliceV("assert.multiError", addr, [i \in 1..Len(texts) |-> StrV(texts[i])])

(***************************************************************************)
(* One call, statement by statement.  A frame is a function on the call    *)
(* stack: whether it has called t.Helper(), and whether it has done its    *)
(* work and returns next.                                                  *)
(***************************************************************************)
Frame(fn) == [fn |-> fn, helper |-> FALSE, done |-> FALSE]

\* no test case makes several calls
NoTests == <<>>

Idle ==
    [pc |-> "idle", op |-> "", stack |-> <<>>, todo |-> <<>>, panicking |-> FALSE,
     payload |-> NilV, recovered |-> FALSE, r |-> NilV, sent |-> <<>>, outcome |-> "none"]

(***************************************************************************)
(* The state machine: the inputs are drawn once; every primitive that      *)
(* takes them is called once, on a recorder of its own.                    *)
(***************************************************************************)
Init ==
    /\ tc \in TestCases
    /\ panicnil \in BOOLEAN
    /\ run = Idle
    /\ res = [op \in Ops |-> <<>>]
    /\ tests = NoTests

Called(op) == res[op] /= <<>>

\* the sink after the call of op
After(op) == res[op][1]

Call(op, fam, sink) ==
    /\ tc.fam = fam
    /\ ~Called(op)
    /\ res' = [res EXCEPT ![op] = <<sink>>]
    /\ UNCHANGED <<tc, panicnil, run, tests>>

CallEquals == Call("Equals", "eq", Equals(NewTestRecorder, tc.a, tc.b, tc.msg))
CallNotEquals == Call("NotEquals", "eq", NotEquals(NewTestRecorder, tc.a, tc.b, tc.msg))
CallError == Call("Error", "err", Error(NewTestRecorder, tc.a, tc.b))
CallNil == Call("Nil", "nil", Nil(NewTestRecorder, tc.a))
CallNotNil == Call("NotNil", "nil", NotNil(NewTestRecorder, tc.a))
CallTrue == Call("True", "bool", True(NewTestRecorder, tc.a, tc.msg))
CallFalse == Call("False", "bool", False(NewTestRecorder, tc.a, tc.msg))
CallPanics == Call("Panics", "panic", Panics(NewTestRecorder, tc.fn, tc.str))
CallBetween == Call("Between", "ord", Between(NewTestRecorder, tc.a, tc.b, tc.c))
CallGreater == Call("Greater", "ord", Greater(NewTestRecorder, tc.a, tc.b))
CallGreaterOrEqual ==
    Call("GreaterOrEqual", "ord", GreaterOrEqual(NewTestRecorder, tc.a, tc.b, tc.msg))
CallLessOrEqual ==
    Call("LessOrEqual", "ord", LessOrEqual(NewTestRecorder, tc.a, tc.b, tc.msg))
CallEmpty == Call("Empty", "coll", Empty(NewTestRecorder, tc.a, tc.msg))
CallLen == Call("Len", "coll", AssertLen(NewTestRecorder, tc.a, tc.n))
CallContains == Call("Contains", "contains", Contains(NewTestRecorder, tc.a, tc.b))
CallNotContains ==
    Call("NotContains", "contains", NotContains(NewTestRecorder, tc.a, tc.b, tc.msg))
CallHasKey == Call("HasKey", "key", HasKey(NewTestRecorder, tc.a, tc.b))
CallHasPrefix ==
    Call("HasPrefix", "str", HasPrefix(NewTestRecorder, tc.a.str, tc.b.str, tc.msg))
CallHasSuffix ==
    Call("HasSuffix", "str", HasSuffix(NewTestRecorder, tc.a.str, tc.b.str, tc.msg))
CallStringContains ==
    Call("StringContains", "str", StringContains(NewTestRecorder, tc.a.str, tc.b.str))
CallMatchRegexp ==
    Call("MatchRegexp", "re", MatchRegexp(NewTestRecorder, tc.a.str, tc.b.str, tc.msg))
CallErrorIs == Call("ErrorIs", "is", ErrorIs(NewTestRecorder, tc.a, tc.b, tc.msg))
\* ErrorAs leaves, after the sink, the target variable as it is after the call
CallErrorAs ==
    LET r == ErrorAs(NewTestRecorder, tc.a, [type |-> tc.str, val |-> tc.b], tc.msg)
    IN  /\ tc.fam = "as"
        /\ ~Called("ErrorAs")
        /\ res' = [res EXCEPT !["ErrorAs"] = <<r.sink, r.target>>]
        /\ UNCHANGED <<tc, panicnil, run, tests>>

Next ==
    \/ CallEquals
    \/ CallNotEquals
    \/ CallError
    \/ CallNil
    \/ CallNotNil
    \/ CallTrue
    \/ CallFalse
    \/ CallPanics
    \/ CallBetween
    \/ CallGreater
    \/ CallGreaterOrEqual
    \/ CallLessOrEqual
    \/ CallEmpty
    \/ CallLen
    \/ CallContains
    \/ CallNotContains
    \/ CallHasKey
    \/ CallHasPrefix
    \/ CallHasSuffix
    \/ CallStringContains
    \/ CallMatchRegexp
    \/ CallErrorIs
    \/ CallErrorAs

Spec == Init /\ [][Next]_vars

(***************************************************************************)
(* One call, statement by statement, for the control flow: which frames    *)
(* are on the stack when a report is sent, and where a panic ends.         *)
(***************************************************************************)
\* the family of arguments that a primitive takes
Fam(op) ==
    CASE op \in {"Equals", "NotEquals"} -> "eq"
      [] op = "Error" -> "err"
      [] op \in {"Nil", "NotNil"} -> "nil"
      [] op \in {"True", "False"} -> "bool"
      [] op = "Panics" -> "panic"
      [] op \in {"Between", "Greater", "GreaterOrEqual", "LessOrEqual"} -> "ord"
      [] op \in {"Empty", "Len"} -> "coll"
      [] op \in {"Contains", "NotContains"} -> "contains"
      [] op = "HasKey" -> "key"
      [] op \in {"HasPrefix", "HasSuffix", "StringContains"} -> "str"
      [] op = "MatchRegexp" -> "re"
      [] op = "ErrorIs" -> "is"
      [] op = "ErrorAs" -> "as"

\* the sink after the call of op on the arguments tc and a fresh recorder
\* the call of primitive op with the arguments of c, on the sink t
Apply(op, c, t) ==
    CASE op = "Equals" -> Equals(t, c.a, c.b, c.msg)
      [] op = "NotEquals" -> NotEquals(t, c.a, c.b, c.msg)
      [] op = "Error" -> Error(t, c.a, c.b)
      [] op = "Nil" -> Nil(t, c.a)
      [] op = "NotNil" -> NotNil(t, c.a)
      [] op = "True" -> True(t, c.a, c.msg)
      [] op = "False" -> False(t, c.a, c.msg)
      [] op = "Panics" -> Panics(t, c.fn, c.str)
      [] op = "Between" -> Between(t, c.a, c.b, c.c)
      [] op = "Greater" -> Greater(t, c.a, c.b)
      [] op = "GreaterOrEqual" -> GreaterOrEqual(t, c.a, c.b, c.msg)
      [] op = "LessOrEqual" -> LessOrEqual(t, c.a, c.b, c.msg)
      [] op = "Empty" -> Empty(t, c.a, c.msg)
      [] op = "Len" -> AssertLen(t, c.a, c.n)
      [] op = "Contains" -> Contains(t, c.a, c.b)
      [] op = "NotContains" -> NotContains(t, c.a, c.b, c.msg)
      [] op = "HasKey" -> HasKey(t, c.a, c.b)
      [] op = "HasPrefix" -> HasPrefix(t, c.a.str, c.b.str, c.msg)
      [] op = "HasSuffix" -> HasSuffix(t, c.a.str, c.b.str, c.msg)
      [] op = "StringContains" -> StringContains(t, c.a.str, c.b.str)
      [] op = "MatchRegexp" -> MatchRegexp(t, c.a.str, c.b.str, c.msg)
      [] op = "ErrorIs" -> ErrorIs(t, c.a, c.b, c.msg)
      [] op = "ErrorAs" ->
            ErrorAs(t, c.a, [type |-> c.str, val |-> c.b], c.msg).sink

\* the call of op with the arguments under test, on a fresh recorder
Sink(op) == Apply(op, tc, NewTestRecorder)

\* the functions of the library that can be on the stack when a report is
\* sent; all but the function that Panics defers start with t.Helper()
LibFns == Ops \cup {"compare", "failCompare", "Panics.func1"}

MarksHelper(fn) == fn \in LibFns \ {"Panics.func1"}

\* no function of the library defers a recover
HasDeferredRecover_Nowhere(fn) == FALSE

\* the functions that defer a function that calls recover(): Panics
HasDeferredRecover(fn) == fn = "Panics"

\* actual != expected of Error panics on two non-nil errors of one type
\* that == cannot compare
PanicsOnCompare(x, y) ==
    /\ x.kind /= "invalid"
    /\ y.kind /= "invalid"
    /\ x.type = y.type
    /\ x.kind \in {"slice", "map", "func"}

\* the calls whose control flow is followed: without a custom message, and
\* Error on errors of an uncomparable type
FlowCases ==
    {t \in TestCases : t.msg = <<>>}
    \cup {TC("errpanic", a, b, NilV, 0, <<>>, NoFn, "") :
              a \in {MultiError(75, <<"a">>), MultiError(76, <<"b">>)},
              b \in {MultiError(75, <<"a">>)}}

FlowInit ==
    /\ tc \in FlowCases
    /\ res = [op \in Ops |-> <<>>]
    /\ panicnil \in BOOLEAN
    /\ run = Idle
    /\ tests = NoTests

Top == run.stack[Len(run.stack)]

SetTop(f) == [run.stack EXCEPT ![Len(run.stack)] = f]

Pop == SubSeq(run.stack, 1, Len(run.stack) - 1)

Running == run.pc = "running" /\ run.stack /= <<>>

\* the function on top has called t.Helper() if that is its first statement
Ready == MarksHelper(Top.fn) => Top.helper

\* Error is at actual != expected and the comparison panics
MayRaise == Top.fn = "Error" /\ tc.fam = "errpanic" /\ PanicsOnCompare(tc.a, tc.b)

\* the functions that call t.Error or t.Errorf themselves
DirectReport(fn) ==
    \/ fn \in {"failCompare", "NotNil"}
    \/ fn \in {"Empty", "Len"} /\ ~(tc.a.kind \in {"slice", "array", "map", "string"})
    \/ fn = "Panics.func1" /\ run.r.kind = "invalid"

\* the function of the library that fn calls: Equals calls compare, which
\* calls failCompare as the other primitives do; "" if none
Callee(fn) ==
    IF fn = "Equals" THEN "compare"
    ELSE IF fn = "Panics" \/ DirectReport(fn) THEN ""
    ELSE "failCompare"

FlowEnter(op) ==
    /\ run.pc = "idle"
    /\ tc.fam = Fam(op) \/ (op = "Error" /\ tc.fam = "errpanic")
    /\ run' = [Idle EXCEPT !.pc = "running", !.op = op, !.stack = <<Frame(op)>>,
                           !.todo = IF op = "Panics" \/ tc.fam = "errpanic"
                                    THEN <<>> ELSE Sink(op).log]
    /\ UNCHANGED <<tc, res, panicnil, tests>>

\* the test code calls a primitive
FlowEnterAny == \E op \in Ops : FlowEnter(op)

\* t.Helper(), the first statement
FlowHelper ==
    /\ Running
    /\ ~run.panicking
    /\ MarksHelper(Top.fn)
    /\ ~Top.helper
    /\ run' = [run EXCEPT !.stack = SetTop([Top EXCEPT !.helper = TRUE])]
    /\ UNCHANGED <<tc, res, panicnil, tests>>

\* compare(...) in Equals, failCompare(...) where a check has failed
FlowCall ==
    /\ Running
    /\ ~run.panicking
    /\ Top.fn \in LibFns
    /\ Ready
    /\ ~Top.done
    /\ ~MayRaise
    /\ Top.fn = "Panics.func1" => run.recovered
    /\ Callee(Top.fn) /= ""
    /\ Top.fn = "Equals" \/ run.todo /= <<>>
    /\ run' = [run EXCEPT !.stack = Append(run.stack, Frame(Callee(Top.fn)))]
    /\ UNCHANGED <<tc, res, panicnil, tests>>

\* t.Error(...) or t.Errorf(...): the sink gets the report, and sees the stack
FlowReport ==
    /\ Running
    /\ ~run.panicking
    /\ Top.fn \in LibFns
    /\ Ready
    /\ ~Top.done
    /\ Top.fn = "Panics.func1" => run.recovered
    /\ DirectReport(Top.fn)
    /\ run.todo /= <<>>
    /\ run' = [run EXCEPT !.sent = Append(@, [report |-> Head(run.todo),
                                              stack |-> run.stack]),
                          !.todo = Tail(@),
                          !.stack = SetTop([Top EXCEPT !.done = TRUE])]
    /\ UNCHANGED <<tc, res, panicnil, tests>>

\* the function on top returns; the deferred function of Panics that has
\* recovered a panic returns to the caller of Panics
FlowReturn ==
    /\ Running
    /\ ~run.panicking
    /\ Top.fn \in LibFns
    /\ Ready
    /\ ~MayRaise
    /\ Top.fn = "Panics.func1" => run.recovered
    /\ \/ Top.done
       \/ run.todo = <<>> /\ ~(Top.fn \in {"Equals", "Panics"})
    /\ IF \/ Len(run.stack) = 1
          \/ /\ Top.fn = "Panics.func1"
             /\ \E i \in 1..Len(run.stack) : run.stack[i].fn = "runtime.gopanic"
       THEN run' = [run EXCEPT !.stack = <<>>, !.pc = "done", !.outcome = "returned"]
       ELSE run' = [run EXCEPT !.stack =
                       [Pop EXCEPT ![Len(Pop)] =
                           [Pop[Len(Pop)] EXCEPT !.done = (run.todo = <<>>)]]]
    /\ UNCHANGED <<tc, res, panicnil, tests>>

\* fn() in Panics
FlowCallFn ==
    /\ Running
    /\ ~run.panicking
    /\ Top.fn = "Panics"
    /\ Top.helper
    /\ ~Top.done
    /\ run' = [run EXCEPT !.stack = Append(run.stack, Frame("fn"))]
    /\ UNCHANGED <<tc, res, panicnil, tests>>

\* fn returns: Panics ends and its deferred function runs
FlowFnReturn ==
    /\ Running
    /\ Top.fn = "fn"
    /\ ~tc.fn.panics
    /\ run' = [run EXCEPT !.stack =
                  IF HasDeferredRecover(Pop[Len(Pop)].fn)
                  THEN Append(Pop, Frame("Panics.func1"))
                  ELSE [Pop EXCEPT ![Len(Pop)] = [Pop[Len(Pop)] EXCEPT !.done = TRUE]]]
    /\ UNCHANGED <<tc, res, panicnil, tests>>

\* fn panics
FlowFnPanic ==
    /\ Running
    /\ Top.fn = "fn"
    /\ tc.fn.panics
    /\ ~run.panicking
    /\ run' = [run EXCEPT !.panicking = TRUE, !.payload = gopanic(tc.fn.payload),
                          !.stack = Append(run.stack, Frame("runtime.gopanic"))]
    /\ UNCHANGED <<tc, res, panicnil, tests>>

\* the comparison in Error panics
FlowRaise ==
    /\ Running
    /\ ~run.panicking
    /\ Ready
    /\ MayRaise
    /\ run' = [run EXCEPT !.panicking = TRUE,
                          !.payload = StrV("runtime error: comparing uncomparable type "
                                           \o tc.a.type),
                          !.stack = Append(run.stack, Frame("runtime.gopanic"))]
    /\ UNCHANGED <<tc, res, panicnil, tests>>

\* the panic runs the deferred function of a frame that has one
FlowDefer ==
    /\ Running
    /\ run.panicking
    /\ Top.fn = "runtime.gopanic"
    /\ \E i \in 1..Len(run.stack) : HasDeferredRecover(run.stack[i].fn)
    /\ run' = [run EXCEPT !.stack = Append(run.stack, Frame("Panics.func1"))]
    /\ UNCHANGED <<tc, res, panicnil, tests>>

\* r := recover() in the deferred function: it ends the panic, if any, and
\* decides what the function reports
FlowRecover ==
    /\ Running
    /\ Top.fn = "Panics.func1"
    /\ ~run.recovered
    /\ LET r == IF run.panicking THEN run.payload ELSE NilV
       IN  run' = [run EXCEPT !.panicking = FALSE, !.recovered = TRUE, !.r = r,
                              !.todo = PanicsDeferred(NewTestRecorder, r, tc.str).log]
    /\ UNCHANGED <<tc, res, panicnil, tests>>

\* no frame has a deferred function: the panic reaches the caller
FlowPropagate ==
    /\ Running
    /\ run.panicking
    /\ Top.fn = "runtime.gopanic"
    /\ ~\E i \in 1..Len(run.stack) : HasDeferredRecover(run.stack[i].fn)
    /\ run' = [run EXCEPT !.stack = <<>>, !.pc = "done", !.outcome = "panicked"]
    /\ UNCHANGED <<tc, res, panicnil, tests>>

FlowNext ==
    \/ FlowEnterAny
    \/ FlowHelper
    \/ FlowCall
    \/ FlowReport
    \/ FlowReturn
    \/ FlowCallFn
    \/ FlowFnReturn
    \/ FlowFnPanic
    \/ FlowRaise
    \/ FlowDefer
    \/ FlowRecover
    \/ FlowPropagate

FlowSpec == FlowInit /\ [][FlowNext]_vars

\* the calls in which a panic can arise, by fn or by the comparison of
\* Error, and those of Error, True, False and HasKey in which none does
PanicCases == {t \in FlowCases : t.fam \in {"panic", "errpanic", "err", "bool", "key"}}

PanicFlowInit ==
    /\ tc \in PanicCases
    /\ res = [op \in Ops |-> <<>>]
    /\ panicnil \in BOOLEAN
    /\ run = Idle
    /\ tests = NoTests

\* a call runs on one goroutine and no statement of the library blocks:
\* the next statement is always executed
FairFlowSpec == PanicFlowInit /\ [][FlowNext]_vars /\ WF_vars(FlowNext)

(***************************************************************************)
(* Reading a report.                                                       *)
(***************************************************************************)
\* the reports the call of op sent to its sink
Reports(op) == After(op).log

Failed(op) == HasError(After(op))

HasPiece(report, label) == \E i \in 1..Len(report.pieces) : report.pieces[i].label = label

PieceOf(report, label) ==
    report.pieces[CHOOSE i \in 1..Len(report.pieces) : report.pieces[i].label = label]

\* a report in the layout of failCompare: both lines, each with a type label
InCompareLayout(report) ==
    /\ HasPiece(report, "Expected")
    /\ HasPiece(report, "Actual")
    /\ PieceOf(report, "Expected").type /= ""
    /\ PieceOf(report, "Actual").type /= ""

IsUsageError(report) ==
    \/ HasPiece(report, "Empty called with unsupported type")
    \/ HasPiece(report, "Len called with unsupported type")

(***************************************************************************)
(* C1: one call of any primitive sends at most one report to the sink:     *)
(* none when the check passes, exactly one when it fails.                  *)
(***************************************************************************)
C1_AtMostOneReport ==
    \A op \in Ops :
        Called(op) => Len(Reports(op)) = (IF Failed(op) THEN 1 ELSE 0)

(***************************************************************************)
(* C2: Error passes iff actual and expected are both nil or the identical  *)
(* error value; the message text plays no part.                            *)
(***************************************************************************)
SameError(x, y) ==
    \/ x.kind = "invalid" /\ y.kind = "invalid"
    \/ x.kind /= "invalid" /\ y.kind /= "invalid" /\ x.addr = y.addr

C3_EqualsNotEqualsComplement ==
    (Called("Equals") /\ Called("NotEquals"))
        => (Failed("Equals") <=> ~Failed("NotEquals"))

\* both were called on two separately allocated, deeply equal values
C3_Witness ==
    /\ Called("Equals")
    /\ Called("NotEquals")
    /\ tc.a = ErrOne
    /\ tc.b = ErrOneAgain
    /\ ~Failed("Equals")
    /\ Failed("NotEquals")

(***************************************************************************)
(* C4 as stated: Equals(t, x, x) never records a failure, for every x.     *)
(***************************************************************************)
C4_EqualsReflexive ==
    (Called("Equals") /\ tc.a = tc.b) => ~Failed("Equals")

\* x is or holds, at any depth, a NaN or a non-nil func
RECURSIVE HoldsNaNOrFunc(_)
HoldsNaNOrFunc(v) ==
    \/ v.nan
    \/ v.kind = "func" /\ ~v.isnil
    \/ \E i \in 1..Len(v.elems) : HoldsNaNOrFunc(v.elems[i])
    \/ \E i \in 1..Len(v.keys) : HoldsNaNOrFunc(v.keys[i])

(***************************************************************************)
(* C4, amended: Equals(t, x, x) never records a failure for every x that   *)
(* holds no floating-point NaN and no non-nil func value.                  *)
(***************************************************************************)
C4_EqualsReflexiveNoNaN ==
    (Called("Equals") /\ tc.a = tc.b /\ ~HoldsNaNOrFunc(tc.a)) => ~Failed("Equals")

\* Equals has passed on a struct with a nested slice, compared with itself
C4_Witness ==
    /\ Called("Equals")
    /\ tc.a = StructA(30, <<"a", "b">>)
    /\ tc.b = tc.a
    /\ ~Failed("Equals")

(***************************************************************************)
(* C5: Equals fails on two values of different dynamic type, also when     *)
(* their text renderings coincide; the order of slice elements matters     *)
(* and the order of map keys does not.                                     *)
(***************************************************************************)
\* the elements of a slice of ints or strings, as the sequence of their texts
ElemTexts(v) == [i \in 1..Len(v.elems) |-> GoSyntax(v.elems[i])]

\* the entries of a map, as a set of key and value texts
Entries(v) == {<<GoSyntax(v.keys[i]), GoSyntax(v.elems[i])>> : i \in 1..Len(v.keys)}

C5_TypeSensitiveStructural ==
    Called("Equals") =>
        /\ TypeOf(tc.a) /= TypeOf(tc.b) => Failed("Equals")
        /\ ( /\ tc.a.type = "[]int"
             /\ tc.b.type = "[]int"
             /\ ElemTexts(tc.a) /= ElemTexts(tc.b) ) => Failed("Equals")
        /\ ( /\ tc.a.type = "map[string]int"
             /\ tc.b.type = "map[string]int"
             /\ ~tc.a.isnil
             /\ ~tc.b.isnil
             /\ Entries(tc.a) = Entries(tc.b) ) => ~Failed("Equals")

\* Equals has failed on the int 42 and the string "42", which print alike
C5_Witness ==
    /\ Called("Equals")
    /\ tc.a = IntV(42)
    /\ tc.b = StrV("42")
    /\ Sprint(tc.a) = Sprint(tc.b)
    /\ Failed("Equals")

(***************************************************************************)
(* C6: a failing Equals(t, actual, expected) renders expected on the       *)
(* "Expected:" line and actual on the "Actual:" line of its report.        *)
(***************************************************************************)
C6_EqualsReportLines ==
    (Called("Equals") /\ Failed("Equals")) =>
        /\ Len(Reports("Equals")) = 1
        /\ HasPiece(Reports("Equals")[1], "Expected")
        /\ HasPiece(Reports("Equals")[1], "Actual")
        /\ PieceOf(Reports("Equals")[1], "Expected").value = GoSyntax(tc.b)
        /\ PieceOf(Reports("Equals")[1], "Actual").value = GoSyntax(tc.a)

\* Equals has failed on two values that render differently
C6_Witness ==
    /\ Called("Equals")
    /\ Failed("Equals")
    /\ tc.a = IntV(42)
    /\ tc.b = IntV(43)
    /\ PieceOf(Reports("Equals")[1], "Expected").value = "43"

(***************************************************************************)
(* C7: a failing Len(t, collection, n) on a slice, array, map or string    *)
(* shows n as the Expected value and the real length as the Actual value.  *)
(***************************************************************************)
C7_LenReportLines ==
    ( /\ Called("Len")
      /\ tc.a.kind \in {"slice", "array", "map", "string"}
      /\ ValueLen(tc.a) /= tc.n ) =>
        /\ Failed("Len")
        /\ PieceOf(Reports("Len")[1], "Expected").value = ToString(tc.n)
        /\ PieceOf(Reports("Len")[1], "Actual").value = ToString(ValueLen(tc.a))

(***************************************************************************)
(* C8: every report of every primitive that is not a usage error has the   *)
(* layout of failCompare: an "Expected:" and an "Actual:" line, each with  *)
(* a type label.                                                           *)
(***************************************************************************)
C8_AllFailuresViaFailCompare ==
    \A op \in Ops :
        Called(op) =>
            \A i \in 1..Len(Reports(op)) :
                IsUsageError(Reports(op)[i]) \/ InCompareLayout(Reports(op)[i])

(***************************************************************************)
(* C9: Between(t, actual, min, max) passes iff min <= actual <= max, for   *)
(* every actual, min and max of an ordered type.                           *)
(***************************************************************************)
C9_BetweenInclusive ==
    Called("Between") =>
        (~Failed("Between") <=> (Le(tc.b, tc.a) /\ Le(tc.a, tc.c)))

(***************************************************************************)
(* C10: exactly one of Greater(t, a, m) and LessOrEqual(t, a, m) records a *)
(* failure: Greater fails iff a <= m and LessOrEqual fails iff a > m.      *)
(***************************************************************************)
C10_GreaterLessOrEqualComplement ==
    (Called("Greater") /\ Called("LessOrEqual")) =>
        /\ Failed("Greater") <=> ~Failed("LessOrEqual")
        /\ Failed("Greater") <=> Le(tc.a, tc.b)
        /\ Failed("LessOrEqual") <=> Gt(tc.a, tc.b)

(***************************************************************************)
(* C11: on every slice (empty, nil and with repeated elements included)    *)
(* and every element, exactly one of Contains and NotContains records a    *)
(* failure; Contains fails iff no element is deeply equal to the element.  *)
(***************************************************************************)
C11_ContainsNotContainsComplement ==
    (Called("Contains") /\ Called("NotContains")) =>
        /\ Failed("Contains") <=> ~Failed("NotContains")
        /\ Failed("Contains") <=>
               ~\E i \in 1..Len(tc.a.elems) : DeepEqual(Load(tc.a.elems[i]), tc.b)
        /\ Len(Reports("Contains")) + Len(Reports("NotContains")) = 1

\* both were called on a slice that holds the element twice, the second
\* and third time, and NotContains has reported once
C11_Witness ==
    /\ Called("Contains")
    /\ Called("NotContains")
    /\ tc.a.type = "[]int"
    /\ Len(tc.a.elems) = 2
    /\ tc.a.elems[1] /= tc.b
    /\ tc.a.elems[2] = tc.b
    /\ ~Failed("Contains")
    /\ Len(Reports("NotContains")) = 1

(***************************************************************************)
(* C12: Nil passes and NotNil fails exactly for the literal nil and for a  *)
(* nil pointer, slice, map, func, channel or interface; on every other     *)
(* value Nil fails and NotNil passes.                                      *)
(***************************************************************************)
IsNilValue(v) ==
    \/ v = NilV
    \/ v.kind \in {"ptr", "slice", "map", "func", "chan", "interface"} /\ v.isnil

C12_NilExactlyForNilValues ==
    /\ Called("Nil") => (~Failed("Nil") <=> IsNilValue(tc.a))
    /\ Called("NotNil") => (Failed("NotNil") <=> IsNilValue(tc.a))

\* Nil has passed on a nil map and NotNil has failed on it
C12_Witness ==
    /\ Called("Nil")
    /\ Called("NotNil")
    /\ tc.a = NilMapV("map[string]int")
    /\ ~Failed("Nil")
    /\ Failed("NotNil")

(***************************************************************************)
(* C13: Empty and Len on a value whose kind is not slice, array, map or    *)
(* string send exactly one report, a usage error that names the type of    *)
(* the value and has not the layout of failCompare, whatever the expected  *)
(* length; on the four supported kinds Empty fails iff the length is not 0.*)
(***************************************************************************)
SupportedKind(v) == v.kind \in {"slice", "array", "map", "string"}

UsageErrorOnly(op, label) ==
    /\ Len(Reports(op)) = 1
    /\ HasPiece(Reports(op)[1], label)
    /\ PieceOf(Reports(op)[1], label).value = TypeOf(tc.a)
    /\ ~HasPiece(Reports(op)[1], "Expected")
    /\ ~HasPiece(Reports(op)[1], "Actual")
    /\ ~HasPiece(Reports(op)[1], "Message")

C13_UnsupportedKindIsUsageError ==
    /\ (Called("Empty") /\ ~SupportedKind(tc.a)) =>
           UsageErrorOnly("Empty", "Empty called with unsupported type")
    /\ (Called("Len") /\ ~SupportedKind(tc.a)) =>
           UsageErrorOnly("Len", "Len called with unsupported type")
    /\ (Called("Empty") /\ SupportedKind(tc.a)) =>
           /\ Failed("Empty") <=> ValueLen(tc.a) /= 0
           /\ \A i \in 1..Len(Reports("Empty")) : InCompareLayout(Reports("Empty")[i])

\* Empty and Len were called with the integer 42 and each sent its usage error
C13_Witness ==
    /\ Called("Empty")
    /\ Called("Len")
    /\ tc.a = IntV(42)
    /\ tc.n = MaxLen
    /\ PieceOf(Reports("Empty")[1], "Empty called with unsupported type").value = "int"
    /\ PieceOf(Reports("Len")[1], "Len called with unsupported type").value = "int"

(***************************************************************************)
(* C14: MatchRegexp with a pattern that does not compile sends exactly one *)
(* report, the "invalid regexp" one, and never the "should match pattern"  *)
(* one, for every s; with a pattern that compiles it fails iff s does not  *)
(* match.                                                                  *)
(***************************************************************************)
IsInvalidRegexpReport(report) ==
    /\ HasPiece(report, "Message")
    /\ PieceOf(report, "Message").value = "invalid regexp: " \o regexp_Compile(tc.b.str).err
    /\ PieceOf(report, "Actual").value = Quote(tc.b.str)
    /\ PieceOf(report, "Expected").value = Quote("valid regexp pattern")

IsNoMatchReport(report) ==
    PieceOf(report, "Expected").value =
        Quote("should match pattern " \o Quote(tc.b.str))

C14_InvalidPatternPath ==
    Called("MatchRegexp") =>
        IF ~regexp_Compile(tc.b.str).ok
        THEN /\ Len(Reports("MatchRegexp")) = 1
             /\ IsInvalidRegexpReport(Reports("MatchRegexp")[1])
             /\ ~IsNoMatchReport(Reports("MatchRegexp")[1])
        ELSE /\ Failed("MatchRegexp") <=> ~Regexp_MatchString(regexp_Compile(tc.b.str), tc.a.str)
             /\ \A i \in 1..Len(Reports("MatchRegexp")) :
                    IsNoMatchReport(Reports("MatchRegexp")[i])

\* MatchRegexp was called with the pattern "[" and has sent one report
C14_Witness ==
    /\ Called("MatchRegexp")
    /\ tc.b.str = "["
    /\ tc.a.str = "ab"
    /\ Len(Reports("MatchRegexp")) = 1
    /\ PieceOf(Reports("MatchRegexp")[1], "Message").value =
           "invalid regexp: error parsing regexp: missing closing ]: '['"

(***************************************************************************)
(* C15: whenever a primitive that takes a custom message is called with a  *)
(* non-empty one and reports, every report starts with the line            *)
(* "Message: <that custom message>", on every failing path, the            *)
(* invalid-pattern path of MatchRegexp included.                           *)
(***************************************************************************)
MsgOps ==
    {"Equals", "NotEquals", "True", "False", "GreaterOrEqual", "LessOrEqual", "Empty",
     "HasPrefix", "HasSuffix", "MatchRegexp", "NotContains", "ErrorIs",
     "ErrorAs"}

LeadsWithMessage(report, text) ==
    /\ report.pieces /= <<>>
    /\ report.pieces[1].label = "Message"
    /\ report.pieces[1].value = text

C15_CustomMessageLine ==
    \A op \in MsgOps :
        (Called(op) /\ tc.msg /= <<>> /\ tc.msg[1] /= "") =>
            \A i \in 1..Len(Reports(op)) : LeadsWithMessage(Reports(op)[i], tc.msg[1])

(***************************************************************************)
(* C16: Panics(t, fn, msg) has exactly three outcomes: no report if fn     *)
(* panics with a payload whose text is msg; one "unexpected panic message" *)
(* report if fn panics with a payload of another text; one "no panic"      *)
(* report, which is not in the layout of the former, if fn returns.        *)
(***************************************************************************)
IsMismatchReport(report) ==
    /\ HasPiece(report, "Message")
    /\ PieceOf(report, "Message").value = "unexpected panic message"
    /\ ~HasPiece(report, "Expected panic")

IsNoPanicReport(report) ==
    /\ HasPiece(report, "Expected panic")
    /\ ~HasPiece(report, "Message")
    /\ ~HasPiece(report, "Expected")

C16_PanicsThreeOutcomes ==
    Called("Panics") =>
        IF tc.fn.panics
        THEN IF Sprint(gopanic(tc.fn.payload)) = tc.str
             THEN Reports("Panics") = <<>>
             ELSE /\ Len(Reports("Panics")) = 1
                  /\ IsMismatchReport(Reports("Panics")[1])
        ELSE /\ Len(Reports("Panics")) = 1
             /\ IsNoPanicReport(Reports("Panics")[1])

(***************************************************************************)
(* C18: ErrorIs(t, err, target) passes iff some error in the wrap-chain of *)
(* err, at any depth, equals target; a nil err with a non-nil target fails.*)
(***************************************************************************)
\* the wrap-chain of err: err itself, then what Unwrap yields, to the end
RECURSIVE WrapChain(_)
WrapChain(err) ==
    IF err.kind = "invalid" THEN <<>>
    ELSE <<err>> \o WrapChain(Unwrap(err))

ChainHasEqual(err, target) ==
    \/ err.kind = "invalid" /\ target.kind = "invalid"
    \/ \E i \in 1..Len(WrapChain(err)) : IfaceEq(WrapChain(err)[i], target)

C18_ErrorIsChainEquality ==
    Called("ErrorIs") =>
        /\ ~Failed("ErrorIs") <=> ChainHasEqual(tc.a, tc.b)
        /\ (tc.a.kind = "invalid" /\ tc.b.kind /= "invalid") => Failed("ErrorIs")

(***************************************************************************)
(* C18, amended: ErrorIs passes iff some error in the wrap-chain of err    *)
(* equals target or has an Is method that reports a match with target; a   *)
(* nil err with a non-nil target fails.                                    *)
(***************************************************************************)
ChainHasMatch(err, target) ==
    \/ ChainHasEqual(err, target)
    \/ /\ target.kind /= "invalid"
       /\ \E i \in 1..Len(WrapChain(err)) :
              HasIsMethod(WrapChain(err)[i]) /\ IsMethod(WrapChain(err)[i], target)

C18_ErrorIsChainMatch ==
    Called("ErrorIs") =>
        /\ ~Failed("ErrorIs") <=> ChainHasMatch(tc.a, tc.b)
        /\ (tc.a.kind = "invalid" /\ tc.b.kind /= "invalid") => Failed("ErrorIs")

\* ErrorIs has passed on an error wrapped MaxWrap times around its target
C18_Witness ==
    /\ Called("ErrorIs")
    /\ tc.a = Wrapped(ErrOne, MaxWrap)
    /\ tc.b = ErrOne
    /\ ~Failed("ErrorIs")

(***************************************************************************)
(* C19: ErrorAs(t, err, targetSlot) passes iff some error in the           *)
(* wrap-chain of err has the type that targetSlot refers to, and then      *)
(* targetSlot holds the outermost such error after the call; when err is   *)
(* nil or no error of the chain has that type, it fails and targetSlot is  *)
(* left unchanged.                                                         *)
(***************************************************************************)
\* the target variable after the call of ErrorAs
SlotAfter == res["ErrorAs"][2].val

\* the positions in the wrap-chain of the errors of the type of the target
OfTargetType == {i \in 1..Len(WrapChain(tc.a)) : AssignableTo(TypeOf(WrapChain(tc.a)[i]), tc.str)}

Outermost(S) == CHOOSE i \in S : \A j \in S : i <= j

C19_ErrorAsByType ==
    Called("ErrorAs") =>
        IF OfTargetType /= {}
        THEN /\ ~Failed("ErrorAs")
             /\ SlotAfter = WrapChain(tc.a)[Outermost(OfTargetType)]
        ELSE /\ Failed("ErrorAs")
             /\ SlotAfter = tc.b

(***************************************************************************)
(* C19, amended: ErrorAs passes iff some error in the wrap-chain of err    *)
(* has the type that targetSlot refers to or has an As method that accepts *)
(* targetSlot; targetSlot then holds the outermost such error or, if that  *)
(* one matched by its As method, what the method stored; when err is nil   *)
(* or no error of the chain matches, it fails and targetSlot is unchanged. *)
(***************************************************************************)
Matching ==
    {i \in 1..Len(WrapChain(tc.a)) :
        \/ AssignableTo(TypeOf(WrapChain(tc.a)[i]), tc.str)
        \/ /\ HasAsMethod(WrapChain(tc.a)[i])
           /\ AsMethod(WrapChain(tc.a)[i], [type |-> tc.str, val |-> tc.b]).ok}

C19_ErrorAsByTypeOrAsMethod ==
    Called("ErrorAs") =>
        IF Matching /= {}
        THEN LET e == WrapChain(tc.a)[Outermost(Matching)]
             IN  /\ ~Failed("ErrorAs")
                 /\ SlotAfter =
                        IF AssignableTo(TypeOf(e), tc.str) THEN e
                        ELSE AsMethod(e, [type |-> tc.str, val |-> tc.b]).target.val
        ELSE /\ Failed("ErrorAs")
             /\ SlotAfter = tc.b

\* ErrorAs has passed on a *testError wrapped MaxWrap times and has stored
\* it in a target that held another error before
C19_Witness ==
    /\ Called("ErrorAs")
    /\ tc.a = Wrapped(TestError(70, 404), MaxWrap)
    /\ tc.b = TestError(73, 500)
    /\ ~Failed("ErrorAs")
    /\ SlotAfter = TestError(70, 404)

(***************************************************************************)
(* C17: for every fn, panicking or returning, Panics returns normally to   *)
(* its caller in the end and the panic of fn never passes Panics; no other *)
(* primitive intercepts a panic: one raised while another primitive runs   *)
(* reaches the caller.                                                     *)
(***************************************************************************)
C17_OnlyPanicsInterceptsPanic ==
    /\ (run.op = "Panics" /\ run.pc = "running") ~> (run.outcome = "returned")
    /\ [](run.op = "Panics" => run.outcome /= "panicked")
    /\ (run.op /= "Panics" /\ run.panicking) ~> (run.outcome = "panicked")
    /\ [](run.op /= "Panics" => ~run.recovered)

\* Panics has returned to its caller after fn panicked and the deferred
\* function recovered the panic
C17_Witness ==
    /\ run.op = "Panics"
    /\ tc.fn.panics
    /\ run.recovered
    /\ run.r = tc.fn.payload
    /\ run.outcome = "returned"

(***************************************************************************)
(* C20: every primitive calls t.Helper() before it reports, and at every   *)
(* report each function of the library on the call stack, the recovery     *)
(* path of Panics included, has marked itself as a helper.                 *)
(***************************************************************************)
C20_AllLibraryFramesAreHelpers ==
    \A i \in 1..Len(run.sent) :
        /\ run.sent[i].stack[1].helper
        /\ \A j \in 1..Len(run.sent[i].stack) :
               run.sent[i].stack[j].fn \in LibFns => run.sent[i].stack[j].helper

(***************************************************************************)
(* C23: on two error values created by separate calls of errors.New with   *)
(* one message, Equals passes (the comparison follows the two pointers     *)
(* into the values they point to) and Error fails (it compares the         *)
(* pointers themselves).                                                   *)
(***************************************************************************)
SeparatelyCreated(x, y) ==
    /\ x.type = "*errors.errorString"
    /\ y.type = "*errors.errorString"
    /\ ~x.isnil
    /\ ~y.isnil
    /\ x.addr /= y.addr
    /\ ErrorText(x) = ErrorText(y)

C23_EqualsPassesErrorFails ==
    /\ (Called("Equals") /\ SeparatelyCreated(tc.a, tc.b)) =>
           ~Failed("Equals") /\ HasError(Sink("Error"))
    /\ (Called("Error") /\ SeparatelyCreated(tc.a, tc.b)) =>
           Failed("Error") /\ ~HasError(Sink("Equals"))

\* Equals has passed on errors.New("error one") twice, where Error fails
C23_Witness ==
    /\ Called("Equals")
    /\ tc.a = ErrOne
    /\ tc.b = ErrOneAgain
    /\ tc.a.addr /= tc.b.addr
    /\ ~Failed("Equals")
    /\ HelperCalled(After("Equals"))
    /\ HasError(Sink("Error"))

(***************************************************************************)
(* C24: the report of a failing True(t, false) shows true on its           *)
(* "Expected:" line and the supplied value, false, on its "Actual:" line;  *)
(* the report of a failing False(t, true) shows false on its "Expected:"   *)
(* line and the supplied value, true, on its "Actual:" line.               *)
(***************************************************************************)
C24_BoolReportLines ==
    /\ (Called("True") /\ Failed("True")) =>
           /\ PieceOf(Reports("True")[1], "Expected").value = "true"
           /\ PieceOf(Reports("True")[1], "Actual").value = GoSyntax(tc.a)
    /\ (Called("False") /\ Failed("False")) =>
           /\ PieceOf(Reports("False")[1], "Expected").value = "false"
           /\ PieceOf(Reports("False")[1], "Actual").value = GoSyntax(tc.a)

(***************************************************************************)
(* C25: in every report built by failCompare the type label of the         *)
(* "Expected:" line is the type of the value rendered on that line, and    *)
(* the type label of the "Actual:" line is the type of the value rendered  *)
(* on that line.  Equals hands its two arguments to failCompare unchanged, *)
(* so its report is checked against them.                                  *)
(***************************************************************************)
C25_TypeLabelOfSameLine ==
    (Called("Equals") /\ Failed("Equals")) =>
        /\ PieceOf(Reports("Equals")[1], "Expected").value = GoSyntax(tc.b)
        /\ PieceOf(Reports("Equals")[1], "Expected").type = TypeOf(tc.b)
        /\ PieceOf(Reports("Equals")[1], "Actual").value = GoSyntax(tc.a)
        /\ PieceOf(Reports("Equals")[1], "Actual").type = TypeOf(tc.a)

(***************************************************************************)
(* One TestRecorder under a sequence of calls of its methods, made either  *)
(* directly or by the primitive Error, which reports up to twice in one    *)
(* call.  hist is the sequence of method calls the recorder has received.  *)
(***************************************************************************)
NoCase == TC("", NilV, NilV, NilV, 0, <<>>, NoFn, "")

Test(prog) ==
    [t |-> NewTestRecorder, hist |-> <<>>, prog |-> prog, next |-> 1,
     pc |-> "idle", todo |-> <<>>]

\* the arguments the library hands to t.Error and to t.Errorf
ErrorArgs ==
    {Error(NewTestRecorder, NilV, ErrOne).log[i].pieces : i \in 1..2}

ErrorfArgs ==
    {Panics(NewTestRecorder, [panics |-> FALSE, payload |-> NilV], "boom").log[1].pieces,
     Empty(NewTestRecorder, IntV(42), <<>>).log[1].pieces}

RecInit ==
    /\ tc = NoCase
    /\ res = [op \in Ops |-> <<>>]
    /\ panicnil \in BOOLEAN
    /\ run = Idle
    /\ tests = <<Test(<<>>)>>

Received(method, pieces) == [method |-> method, pieces |-> pieces]

RecError ==
    /\ Len(tests[1].hist) < MaxCalls
    /\ \E args \in ErrorArgs :
           tests' = [tests EXCEPT ![1].t = TestRecorder_Error(@, args),
                                  ![1].hist = Append(@, Received("Error", args))]
    /\ UNCHANGED <<tc, res, panicnil, run>>

RecErrorf ==
    /\ Len(tests[1].hist) < MaxCalls
    /\ \E args \in ErrorfArgs :
           tests' = [tests EXCEPT ![1].t = TestRecorder_Errorf(@, args),
                                  ![1].hist = Append(@, Received("Errorf", args))]
    /\ UNCHANGED <<tc, res, panicnil, run>>

RecHelper ==
    /\ Len(tests[1].hist) < MaxCalls
    /\ tests' = [tests EXCEPT ![1].t = TestRecorder_Helper(@),
                              ![1].hist = Append(@, Received("Helper", <<>>))]
    /\ UNCHANGED <<tc, res, panicnil, run>>

\* the primitive Error called on the recorder: t.Helper(), then one t.Error
\* per report
RecAssertError ==
    /\ Len(tests[1].hist) < MaxCalls
    /\ \E actual \in {NilV, ErrOne}, expected \in {NilV, ErrOne} :
           LET t1 == Error(tests[1].t, actual, expected)
               sent == SubSeq(t1.log, Len(tests[1].t.log) + 1, Len(t1.log))
           IN  tests' = [tests EXCEPT
                   ![1].t = t1,
                   ![1].hist = @ \o <<Received("Helper", <<>>)>> \o
                               [i \in 1..Len(sent) |-> Received("Error", sent[i].pieces)]]
    /\ UNCHANGED <<tc, res, panicnil, run>>

RecNext == RecError \/ RecErrorf \/ RecHelper \/ RecAssertError

RecSpec == RecInit /\ [][RecNext]_vars

(***************************************************************************)
(* C26: after any sequence of Error, Errorf and Helper calls on a          *)
(* TestRecorder, HasError() is true iff Error or Errorf was called and     *)
(* never goes back to false, HelperCalled() is true iff Helper was         *)
(* called, and ErrorMessage() is the text of the most recent Error or      *)
(* Errorf call alone, so the text of an earlier report of the same         *)
(* assertion call is lost.                                                 *)
(***************************************************************************)
ErrorCalls(hist) == {i \in 1..Len(hist) : hist[i].method \in {"Error", "Errorf"}}

MostRecent(calls) == CHOOSE i \in calls : \A j \in calls : j <= i

RecorderAsReceived(t, hist) ==
    /\ HasError(t) <=> ErrorCalls(hist) /= {}
    /\ HelperCalled(t) <=> \E i \in 1..Len(hist) : hist[i].method = "Helper"
    /\ ErrorMessage(t) = IF ErrorCalls(hist) = {} THEN ""
                         ELSE ReportText(hist[MostRecent(ErrorCalls(hist))].pieces)

C26_TestRecorderContract ==
    /\ [](RecorderAsReceived(tests[1].t, tests[1].hist))
    /\ [][HasError(tests[1].t) => HasError(tests[1].t')]_vars

\* Error(t, nil, errOne) has reported twice in one call and only the text
\* of the second report can be read back
C26_Witness ==
    /\ Len(tests) = 1
    /\ Len(tests[1].t.log) = 2
    /\ tests[1].hist = <<Received("Helper", <<>>),
                         Received("Error", tests[1].t.log[1].pieces),
                         Received("Error", tests[1].t.log[2].pieces)>>
    /\ HasPiece(tests[1].t.log[1], "Message")
    /\ ErrorMessage(tests[1].t) = ReportText(tests[1].t.log[2].pieces)
    /\ ErrorMessage(tests[1].t) /= ReportText(tests[1].t.log[1].pieces)

(***************************************************************************)
(* One test case that makes a sequence of assertion calls on one sink:     *)
(* each call is the whole primitive, applied to the sink as the calls      *)
(* before it left it.  hist is the sequence of calls made.                 *)
(***************************************************************************)
\* per family of primitives, arguments on which some of them pass and
\* others fail
DifferentInts == TC("eq", IntV(42), IntV(43), NilV, 0, <<"custom message">>, NoFn, "")
NilAndError == TC("err", NilV, ErrOne, NilV, 0, <<>>, NoFn, "")
SameErrorTwice == TC("err", ErrOne, ErrOne, NilV, 0, <<>>, NoFn, "")
JustTrue == TC("bool", BoolV(TRUE), NilV, NilV, 0, <<>>, NoFn, "")
PanicsWithBoom ==
    TC("panic", NilV, NilV, NilV, 0, <<>>, [panics |-> TRUE, payload |-> StrV("boom")], "boom")

SeqCases ==
    {DifferentInts, NilAndError, SameErrorTwice, JustTrue, PanicsWithBoom,
     TC("nil", NilV, NilV, NilV, 0, <<>>, NoFn, ""),
     TC("contains", SliceI(10, <<1, 2>>), IntV(1), NilV, 0, <<>>, NoFn, ""),
     TC("ord", IntV(1), IntV(0), IntV(2), 0, <<>>, NoFn, ""),
     TC("coll", SliceI(10, <<1, 2>>), NilV, NilV, 2, <<>>, NoFn, ""),
     TC("str", StrV("ab"), StrV("a"), NilV, 0, <<>>, NoFn, ""),
     TC("re", StrV("a"), StrV("["), NilV, 0, <<>>, NoFn, ""),
     TC("key", MapSI(20, <<"a", "b">>, <<1, 2>>), StrV("c"), NilV, 0, <<>>, NoFn, ""),
     TC("is", Wrapped(ErrOne, 1), ErrOne, NilV, 0, <<>>, NoFn, ""),
     TC("as", ErrOne, NilPtrV("*assert.testError"), NilV, 0, <<>>, NoFn,
        "*assert.testError"),
     TC("panic", NilV, NilV, NilV, 0, <<>>, NoFn, "boom")}

SeqCalls == {call \in [op : Ops, c : SeqCases] : call.c.fam = Fam(call.op)}

SeqInit ==
    /\ tc = NoCase
    /\ res = [op \in Ops |-> <<>>]
    /\ panicnil \in BOOLEAN
    /\ run = Idle
    /\ tests = <<Test(<<>>)>>

SeqCall ==
    /\ Len(tests[1].hist) < MaxSeq
    /\ \E call \in SeqCalls :
           tests' = [tests EXCEPT ![1].t = Apply(call.op, call.c, @),
                                  ![1].hist = Append(@, call)]
    /\ UNCHANGED <<tc, res, panicnil, run>>

SeqNext == SeqCall

SeqSpec == SeqInit /\ [][SeqNext]_vars

(***************************************************************************)
(* C21: after any sequence of assertion calls on one sink, the sink is     *)
(* marked failed iff some call of the sequence fails when it is made       *)
(* alone on a fresh sink; the reports on the sink are the reports of each  *)
(* call made alone, in the order of the calls, so a failed call does not   *)
(* stop the later ones and no call's outcome or text depends on the calls  *)
(* before it; and no call clears the failure mark.                         *)
(***************************************************************************)
Alone(call) == Apply(call.op, call.c, NewTestRecorder)

RECURSIVE ReportsAlone(_)
ReportsAlone(hist) ==
    IF hist = <<>> THEN <<>> ELSE Alone(Head(hist)).log \o ReportsAlone(Tail(hist))

SinkAsCallsAlone(t, hist) ==
    /\ HasError(t) <=> \E i \in 1..Len(hist) : HasError(Alone(hist[i]))
    /\ t.log = ReportsAlone(hist)
    /\ ErrorMessage(t) = IF t.log = <<>> THEN ""
                         ELSE ReportText(t.log[Len(t.log)].pieces)

C21_CallsAreIndependent ==
    /\ [](SinkAsCallsAlone(tests[1].t, tests[1].hist))
    /\ [][HasError(tests[1].t) => HasError(tests[1].t')]_vars

\* a failing Equals, then a passing True: the sink is still failed and
\* holds the report of Equals
C21_Witness ==
    /\ Len(tests) = 1
    /\ Len(tests[1].hist) = 2
    /\ tests[1].hist[1].op = "Equals"
    /\ tests[1].hist[2].op = "True"
    /\ HasError(Alone(tests[1].hist[1]))
    /\ ~HasError(Alone(tests[1].hist[2]))
    /\ HasError(tests[1].t)
    /\ Len(tests[1].t.log) = 1

(***************************************************************************)
(* Two test cases, each on a goroutine of its own with a sink of its own,  *)
(* run their assertion calls concurrently.  A call is a sequence of steps  *)
(* on its goroutine: it is entered, it calls t.Helper(), it sends its      *)
(* reports one by one with t.Error or t.Errorf, and it returns.  What a    *)
(* call computes in between lives in its parameters and local variables    *)
(* (the strings.Builder of failCompare, the recovered value of Panics);    *)
(* the library declares no package-level variable, so the only memory a    *)
(* step writes is the sink t the call was handed.  The steps of the two    *)
(* goroutines interleave in every order.                                   *)
(***************************************************************************)
\* the sink that the calls of test case p were handed as t
SinkOf_Shared(p) == 1

SinkOf(p) == p

TheCall(op, c) == [op |-> op, c |-> c]

\* the programs of the test cases: a failing Equals and a passing True; an
\* Error that reports twice and a Panics that recovers; three passing calls
ProgFailThenPass == <<TheCall("Equals", DifferentInts), TheCall("True", JustTrue)>>
ProgTwoReports == <<TheCall("Error", NilAndError), TheCall("Panics", PanicsWithBoom)>>
ProgAllPass ==
    <<TheCall("True", JustTrue), TheCall("Panics", PanicsWithBoom),
      TheCall("Error", SameErrorTwice)>>

Programs == {ProgFailThenPass, ProgTwoReports, ProgAllPass}

ConcInit ==
    /\ tc = NoCase
    /\ res = [op \in Ops |-> <<>>]
    /\ panicnil \in BOOLEAN
    /\ run = Idle
    /\ \E p1 \in Programs, p2 \in Programs : tests = <<Test(p1), Test(p2)>>

\* test case p makes its next call
ConcEnter(p) ==
    /\ tests[p].pc = "idle"
    /\ tests[p].next <= Len(tests[p].prog)
    /\ tests' = [tests EXCEPT ![p].pc = "helper",
                              ![p].hist = Append(@, tests[p].prog[tests[p].next]),
                              ![p].todo = Alone(tests[p].prog[tests[p].next]).log]
    /\ UNCHANGED <<tc, res, panicnil, run>>

\* t.Helper(), the first statement of every primitive
ConcHelper(p) ==
    /\ tests[p].pc = "helper"
    /\ tests' = [[tests EXCEPT ![SinkOf(p)].t = TestRecorder_Helper(@)]
                    EXCEPT ![p].pc = "report"]
    /\ UNCHANGED <<tc, res, panicnil, run>>

\* t.Error(...) or t.Errorf(...) of the next report of the call
ConcReport(p) ==
    /\ tests[p].pc = "report"
    /\ tests[p].todo /= <<>>
    /\ LET report == Head(tests[p].todo)
       IN  tests' = [[tests EXCEPT ![SinkOf(p)].t =
                          IF report.method = "Error"
                          THEN TestRecorder_Error(@, report.pieces)
                          ELSE TestRecorder_Errorf(@, report.pieces)]
                        EXCEPT ![p].todo = Tail(@)]
    /\ UNCHANGED <<tc, res, panicnil, run>>

ConcReturn(p) ==
    /\ tests[p].pc = "report"
    /\ tests[p].todo = <<>>
    /\ tests' = [tests EXCEPT ![p].pc = "idle", ![p].next = @ + 1]
    /\ UNCHANGED <<tc, res, panicnil, run>>

ConcNext ==
    \E p \in {1, 2} : ConcEnter(p) \/ ConcHelper(p) \/ ConcReport(p) \/ ConcReturn(p)

ConcSpec == ConcInit /\ [][ConcNext]_vars

(***************************************************************************)
(* C22: when two test cases, each with its own sink, run their calls       *)
(* concurrently, in every interleaving each sink holds at every moment     *)
(* only reports of its own test case, and between calls and at the end it  *)
(* is exactly the sink the test case gets when it runs its calls alone:    *)
(* the same failure mark, the same reports, the same last message.         *)
(***************************************************************************)
RECURSIVE RunAlone(_, _)
RunAlone(t, calls) ==
    IF calls = <<>> THEN t
    ELSE RunAlone(Apply(Head(calls).op, Head(calls).c, t), Tail(calls))

C22_SinksAreIsolated ==
    \A p \in DOMAIN tests :
        LET alone == RunAlone(NewTestRecorder, tests[p].hist)
        IN  /\ Len(tests[p].t.log) <= Len(alone.log)
            /\ tests[p].t.log = SubSeq(alone.log, 1, Len(tests[p].t.log))
            /\ tests[p].pc = "idle" => tests[p].t = alone
            /\ (tests[p].pc = "idle" /\ tests[p].next > Len(tests[p].prog)) =>
                   tests[p].t = RunAlone(NewTestRecorder, tests[p].prog)

\* both test cases have finished: the first failed in its first call, the
\* second made three passing calls beside it and its sink is clean
C22_Witness ==
    /\ Len(tests) = 2
    /\ tests[1].prog = ProgFailThenPass
    /\ tests[2].prog = ProgAllPass
    /\ tests[1].pc = "idle" /\ tests[1].next > Len(tests[1].prog)
    /\ tests[2].pc = "idle" /\ tests[2].next > Len(tests[2].prog)
    /\ HasError(tests[1].t)
    /\ Len(tests[1].t.log) = 1
    /\ ~HasError(tests[2].t)
    /\ HelperCalled(tests[2].t)
    /\ tests[2].t.log = <<>>

====
